---------------------------- MODULE Spec2Model ----------------------------
(***************************************************************************)
(* City chase: the turn/phase engine, the escape planner and the pursuer   *)
(* AI of src/src/App.tsx, as a state machine.                              *)
(*                                                                         *)
(* Conventions.  A Cell or a Node is a record [r, c].  The string keys     *)
(* `${r},${c}` of the code (keyCell, keyNode) are modelled as the pair     *)
(* <<r, c>>.  visits is a function from the keys it holds to the sequence  *)
(* of turn numbers stored under the key.  revealed and searched are        *)
(* Record<string, boolean> objects in which the code only ever stores      *)
(* true: each is modelled as the set of its keys.  Unit indices are 0..2   *)
(* as in the code; At(s, i) reads the array element of index i.            *)
(*                                                                         *)
(* Beside the fields of GameState the state holds policeSearchMode (its    *)
(* own useState), aiRunning (aiRunningRef), aiTimers (the pending timers   *)
(* of aiTimersRef and of endPoliceTurn, in the order they fire) and acts,  *)
(* a history variable the code does not have: the number of pursuer        *)
(* actions that took effect since the evader last moved.  moveWaitSec and  *)
(* the text of the hand-over are left out; a radio line is the record of   *)
(* the values its text is built from.                                      *)
(*                                                                         *)
(* Spec is the whole game.  PlannerSpec drives the escape planner over the *)
(* histories an evader can have, RenderSpec adds two requests of the human *)
(* pursuer handled in one render, ScenarioSpec plays the first turn of a   *)
(* match set up on given nodes, and AiSpec runs the pursuer AI's first     *)
(* turn from the placements it can be dealt.                               *)
(***************************************************************************)
EXTENDS Integers, Sequences, FiniteSets, TLC

GRID == 5
NODE == 4
MAX_TURN == 11
ACTIONS_PER_TURN == 3

NoCell == [r |-> -1, c |-> -1]       \* criminalPos: null
NoHeli == -1                         \* selectedHeli: null

VARIABLES
  mode, role, viewer, phase, turn,
  helicopters, selectedHeli, actionsLeft, heliActed,
  criminalPos, visits, revealed, searched, criminalPath,
  lastPoliceSearches, policeAiRadio, policeAiThinking, criminalMoving,
  winner, handoff,
  policeSearchMode, aiRunning, aiTimers,
  acts

vars == << mode, role, viewer, phase, turn,
           helicopters, selectedHeli, actionsLeft, heliActed,
           criminalPos, visits, revealed, searched, criminalPath,
           lastPoliceSearches, policeAiRadio, policeAiThinking, criminalMoving,
           winner, handoff,
           policeSearchMode, aiRunning, aiTimers,
           acts >>

-----------------------------------------------------------------------------
(* Board geometry *)

Cells == [r : 0..(GRID - 1), c : 0..(GRID - 1)]
Nodes == [r : 0..(NODE - 1), c : 0..(NODE - 1)]

At(s, i) == s[i + 1]

keyCell(cl) == << cl.r, cl.c >>
keyNode(n) == << n.r, n.c >>

inBoundsCell(cl) == cl.r >= 0 /\ cl.r < GRID /\ cl.c >= 0 /\ cl.c < GRID

\* The four orthogonal neighbours in the code's order (up, down, left,
\* right), filtered by inBoundsCell.
neighborsCell(cl) ==
  SelectSeq(<< [r |-> cl.r - 1, c |-> cl.c], [r |-> cl.r + 1, c |-> cl.c],
               [r |-> cl.r, c |-> cl.c - 1], [r |-> cl.r, c |-> cl.c + 1] >>,
            inBoundsCell)

inBoundsNode(n) == n.r >= 0 /\ n.r < NODE /\ n.c >= 0 /\ n.c < NODE

neighborsNode(n) ==
  SelectSeq(<< [r |-> n.r - 1, c |-> n.c], [r |-> n.r + 1, c |-> n.c],
               [r |-> n.r, c |-> n.c - 1], [r |-> n.r, c |-> n.c + 1] >>,
            inBoundsNode)

surroundingCells(node) ==
  << [r |-> node.r, c |-> node.c], [r |-> node.r, c |-> node.c + 1],
     [r |-> node.r + 1, c |-> node.c], [r |-> node.r + 1, c |-> node.c + 1] >>

Range(s) == { s[i] : i \in 1..Len(s) }

Abs(x) == IF x < 0 THEN -x ELSE x

manhattanCell(a, b) == Abs(a.r - b.r) + Abs(a.c - b.c)

-----------------------------------------------------------------------------
(* Array helpers: Array.prototype.sort is stable, so a comparator sort is  *)
(* the stable insertion sort by that comparator.                           *)

\* Entries are records [x, key]; ascending by key, equal keys keep their order.
RECURSIVE InsertSorted(_, _)
InsertSorted(s, e) ==
  IF s = << >> THEN << e >>
  ELSE IF e.key < Head(s).key THEN << e >> \o s
       ELSE << Head(s) >> \o InsertSorted(Tail(s), e)

RECURSIVE SortEntries(_)
SortEntries(s) ==
  IF s = << >> THEN << >>
  ELSE InsertSorted(SortEntries(SubSeq(s, 1, Len(s) - 1)), s[Len(s)])

\* s.sort((a, b) => Key(a) - Key(b))
SortAscending(s, Key(_)) ==
  LET sorted == SortEntries([i \in 1..Len(s) |-> [x |-> s[i], key |-> Key(s[i])]])
  IN  [i \in 1..Len(s) |-> sorted[i].x]

\* Array.prototype.slice(-n): the last n elements.
LastN(s, n) == IF Len(s) <= n THEN s ELSE SubSeq(s, Len(s) - n + 1, Len(s))

-----------------------------------------------------------------------------
(* Escape planner: criminalAiNextMoveNoStuck *)

\* The neighbours without the filter on visited cells.
NeighborsVisitedOrNot(x, visitedSet) == neighborsCell(x)

\* neighborsCell(x).filter(n => !visitedSet.has(keyCell(n)))
FreeNeighbors(x, visitedSet) ==
  LET Free(n) == keyCell(n) \notin visitedSet IN SelectSeq(neighborsCell(x), Free)

\* canFinishFrom mutates visitedSet in place: the result is the pair of the
\* boolean it returns and the set as the call leaves it.
RECURSIVE canFinishFrom(_, _, _)
RECURSIVE TryNeighbors(_, _, _)
canFinishFrom(pos, stepsLeft, visitedSet) ==
  IF stepsLeft <= 0 THEN [ok |-> TRUE, set |-> visitedSet]
  ELSE LET neigh == FreeNeighbors(pos, visitedSet)
           Degree(a) == Len(FreeNeighbors(a, visitedSet))
       IN IF Len(neigh) = 0 THEN [ok |-> FALSE, set |-> visitedSet]
          ELSE TryNeighbors(SortAscending(neigh, Degree), stepsLeft, visitedSet)

\* The for loop without visitedSet.delete(k) after a failed branch.
RECURSIVE TryNeighborsNoDelete(_, _, _)
TryNeighborsNoDelete(neigh, stepsLeft, visitedSet) ==
  IF neigh = << >> THEN [ok |-> FALSE, set |-> visitedSet]
  ELSE LET n == Head(neigh)
           sub == canFinishFrom(n, stepsLeft - 1, visitedSet \cup {keyCell(n)})
       IN IF sub.ok THEN sub
          ELSE TryNeighborsNoDelete(Tail(neigh), stepsLeft, sub.set)

\* The for loop of canFinishFrom over the sorted neighbours.
TryNeighbors(neigh, stepsLeft, visitedSet) ==
  IF neigh = << >> THEN [ok |-> FALSE, set |-> visitedSet]
  ELSE LET n == Head(neigh)
           sub == canFinishFrom(n, stepsLeft - 1, visitedSet \cup {keyCell(n)})
       IN IF sub.ok THEN sub
          ELSE TryNeighbors(Tail(neigh), stepsLeft, sub.set \ {keyCell(n)})

\* The ranking with the weights exchanged: nearness to the centre first.
RankKeyCentreFirst(a, visited) ==
  LET center == [r |-> 2, c |-> 2]
      ea == Len(FreeNeighbors(a, visited))
      ca == 2520 \div (1 + manhattanCell(a, center))
  IN  0 - (ea * 2520 + ca * 10)

\* pickFrom.sort((a, b) => eb*10 + cb - (ea*10 + ca)) orders by descending
\* e*10 + 1/(1 + manhattan(., centre)).  The distance is at most 8, so the
\* score times 2520 (the least common multiple of 1..9) is an integer; the
\* key is its negation.
RankKey(a, visited) ==
  LET center == [r |-> 2, c |-> 2]
      ea == Len(FreeNeighbors(a, visited))
      ca == 2520 \div (1 + manhattanCell(a, center))
  IN  0 - (ea * 10 * 2520 + ca)

\* The planner ranking every candidate, safe or not.
criminalAiNextMoveUnfiltered(current, vis, currentTurn) ==
  LET visited == DOMAIN vis
      nextCandidates == FreeNeighbors(current, visited)
      Rank(a) == RankKey(a, visited)
  IN  IF Len(nextCandidates) = 0 THEN [next |-> current, stuck |-> TRUE]
      ELSE [next |-> SortAscending(nextCandidates, Rank)[1], stuck |-> FALSE]

\* The planner giving up when no candidate is safe.
criminalAiNextMoveSafeOnly(current, vis, currentTurn) ==
  LET visited == DOMAIN vis
      remainingMoves == MAX_TURN - currentTurn
      nextCandidates == FreeNeighbors(current, visited)
      Safe(cand) ==
        canFinishFrom(cand, remainingMoves - 1, visited \cup {keyCell(cand)}).ok
      safeMoves == SelectSeq(nextCandidates, Safe)
      Rank(a) == RankKey(a, visited)
  IN  IF Len(safeMoves) = 0 THEN [next |-> current, stuck |-> TRUE]
      ELSE [next |-> SortAscending(safeMoves, Rank)[1], stuck |-> FALSE]

criminalAiNextMoveNoStuck(current, vis, currentTurn) ==
  LET visited == DOMAIN vis
      remainingMoves == MAX_TURN - currentTurn
      nextCandidates == FreeNeighbors(current, visited)
      Safe(cand) ==
        canFinishFrom(cand, remainingMoves - 1, visited \cup {keyCell(cand)}).ok
      safeMoves == SelectSeq(nextCandidates, Safe)
      pickFrom == IF Len(safeMoves) > 0 THEN safeMoves ELSE nextCandidates
      Rank(a) == RankKey(a, visited)
  IN  IF Len(nextCandidates) = 0 THEN [next |-> current, stuck |-> TRUE]
      ELSE [next |-> SortAscending(pickFrom, Rank)[1], stuck |-> FALSE]

-----------------------------------------------------------------------------
(* Belief engine: buildHeat and the choices made from it.                  *)
(*                                                                         *)
(* The code computes in IEEE doubles.  Here a factor in [0, 1] is the      *)
(* integer nearest below factor * Scale, and a product of factors is kept  *)
(* as a mantissa in (Scale/10, Scale] with a count of decimal shifts       *)
(* (value = m / Scale / 10^e), so that a product of many small factors     *)
(* does not vanish as it does not vanish in a double.                      *)

Scale == 10 * 1000

\* Math.exp(-f / Scale) for 0 <= f <= Scale, by the Taylor series in Horner
\* form with twelve terms.
RECURSIVE ExpHorner(_, _)
ExpHorner(f, i) ==
  IF i > 12 THEN Scale
  ELSE Scale - (f * ExpHorner(f, i + 1)) \div (i * Scale)

\* Math.exp(-xs / Scale) for xs >= 0: e^-(n + f) = (e^-1)^n * e^-f.
RECURSIVE ExpNeg(_)
ExpNeg(xs) ==
  IF xs <= Scale THEN ExpHorner(xs, 1)
  ELSE (ExpHorner(Scale, 1) * ExpNeg(xs - Scale)) \div Scale

Max2(a, b) == IF a > b THEN a ELSE b
Min2(a, b) == IF a < b THEN a ELSE b

SetMax(S) == CHOOSE x \in S : \A y \in S : y <= x
SetMin(S) == CHOOSE x \in S : \A y \in S : x <= y

\* The traces taken from every visit record, revealed or not.
TracesOfAllVisits(vis, rev) ==
  { [cell |-> [r |-> k[1], c |-> k[2]], t |-> SetMin(Range(vis[k]))] :
      k \in { q \in DOMAIN vis : Len(vis[q]) > 0 } }

\* The traces of buildHeat: one per revealed key that has a visit record,
\* with the key parsed back into a cell and t the least turn stored.
Traces(vis, rev) ==
  { [cell |-> [r |-> k[1], c |-> k[2]], t |-> SetMin(Range(vis[k]))] :
      k \in { q \in rev : q \in DOMAIN vis /\ Len(vis[q]) > 0 } }

\* The factor one trace contributes to the score of cell p.
TraceFactor(p, tr, currentTurn, maxT) ==
  LET delta == Max2(0, currentTurn - tr.t)
      d == manhattanCell(p, tr.cell)
      \* |delta - d| * freshness / 1.2, freshness = 1 + (t / max(1, maxT)) * 1.5,
      \* which is 5 |delta - d| (2 maxT + 3 t) / (12 maxT)
      m == Max2(1, maxT)
      xs == (5 * Abs(delta - d) * (2 * m + 3 * tr.t) * Scale) \div (12 * m)
      closeness == ExpNeg(xs)
  IN  IF d > delta THEN (2 * Scale) \div 100
      ELSE (15 * Scale) \div 100 + (85 * closeness) \div 100

\* score *= factor, renormalising the mantissa.
RECURSIVE Renorm(_, _)
Renorm(y, e) ==
  IF y = 0 THEN [m |-> 0, e |-> 0]
  ELSE IF y * 10 <= Scale * Scale THEN Renorm(y * 10, e + 1)
       ELSE [m |-> y \div Scale, e |-> e]

ScoreTimes(sc, factor) == Renorm(sc.m * factor, sc.e)

RECURSIVE ScoreOf(_, _, _, _)
ScoreOf(p, trs, currentTurn, maxT) ==
  IF trs = {} THEN [m |-> Scale, e |-> 0]
  ELSE LET tr == CHOOSE x \in trs : TRUE
       IN  ScoreTimes(ScoreOf(p, trs \ {tr}, currentTurn, maxT),
                      TraceFactor(p, tr, currentTurn, maxT))

\* a <= b for scores
ScoreLeq(a, b) ==
  \/ a.m = 0
  \/ b.m # 0 /\ (a.e > b.e \/ (a.e = b.e /\ a.m <= b.m))

\* The score as it is, not divided by the maximum.
ScoreUnscaled(a, mx) ==
  IF a.m = 0 \/ a.e > 8 THEN 0 ELSE a.m \div (10 ^ a.e)

\* heat[r][c] /= mx, as a multiple of 1/Scale
ScoreRatio(a, mx) ==
  IF a.m = 0 \/ a.e - mx.e > 8 THEN 0
  ELSE ((a.m * Scale) \div mx.m) \div (10 ^ (a.e - mx.e))

\* The array f with every element computed once.
Filled(f) == f @@ << >>

\* buildHeat: a function from Cells to multiples of 1/Scale.
buildHeat(currentTurn, vis, rev) ==
  LET trs == Traces(vis, rev)
  IN  IF trs = {} THEN [p \in Cells |-> Scale]
      ELSE LET maxT == SetMax({ tr.t : tr \in trs })
               score == Filled([p \in Cells |-> ScoreOf(p, trs, currentTurn, maxT)])
               top == CHOOSE p \in Cells : \A q \in Cells : ScoreLeq(score[q], score[p])
               mx == score[top]
           IN  IF mx.m > 0 THEN Filled([p \in Cells |-> ScoreRatio(score[p], mx)])
               ELSE [p \in Cells |-> 0]

\* All cells in row-major order, as the loops over r and c visit them.
AllCells == [i \in 1..(GRID * GRID) |-> [r |-> (i - 1) \div GRID, c |-> (i - 1) % GRID]]

\* bestCellByHeat adds Math.random() * 0.002 to each heat: a cell can come
\* out best exactly when its heat is within 0.002 of the greatest.
\* The result lists those cells in the order of the scan; with equal
\* jitters the first of them wins.
bestCellByHeat(heat) ==
  LET top == SetMax({ heat[q] : q \in Cells })
      CanWin(p) == heat[p] * 1000 + 2 * Scale > top * 1000
      AtTop(p) == heat[p] = top
  IN  SelectSeq(AllCells, AtTop) \o
      SelectSeq(AllCells, LAMBDA p : CanWin(p) /\ ~AtTop(p))

\* The score of bestSearchTarget without its jitter, times 10:
\* hs * 2.0 + ns * 0.6.
SearchScore(cl, heat, srch) ==
  20 * heat[cl] + (IF keyCell(cl) \in srch THEN 0 ELSE 6 * Scale)

\* bestSearchTarget adds Math.random() * 0.01 to each score: a surrounding
\* cell can come out first exactly when its score is within 0.01 of the
\* greatest.
\* The result lists those cells, first the ones of greatest score in
\* the order of cand (the sort is stable).
bestSearchTarget(node, heat, srch) ==
  LET cand == surroundingCells(node)
      best == SetMax({ SearchScore(q, heat, srch) : q \in Range(cand) })
      CanWin(p) == 10 * SearchScore(p, heat, srch) + Scale > 10 * best
      AtTop(p) == SearchScore(p, heat, srch) = best
  IN  SelectSeq(cand, AtTop) \o SelectSeq(cand, LAMBDA p : CanWin(p) /\ ~AtTop(p))

\* Math.min(...around.map(a => manhattanCell(a, target)))
NodeDistance(n, target) ==
  SetMin({ manhattanCell(a, target) : a \in Range(surroundingCells(n)) })

\* The choice of the node to move to without the filter on occupied.
bestMoveNodeToward(node, target, occupied) ==
  LET neigh == neighborsNode(node)
      bestD == SetMin({ NodeDistance(neigh[i], target) : i \in 1..Len(neigh) })
      first == SetMin({ i \in 1..Len(neigh) : NodeDistance(neigh[i], target) = bestD })
  IN  neigh[first]

\* The loop of bestMoveNodeTowardAvoidOccupied keeps the first neighbour of
\* least distance.
bestMoveNodeTowardAvoidOccupied(node, target, occupied) ==
  LET Free(n) == keyNode(n) \notin occupied
      neigh == SelectSeq(neighborsNode(node), Free)
      bestD == SetMin({ NodeDistance(neigh[i], target) : i \in 1..Len(neigh) })
      first == SetMin({ i \in 1..Len(neigh) : NodeDistance(neigh[i], target) = bestD })
  IN  IF Len(neigh) = 0 THEN node ELSE neigh[first]

quadrantOfCell(cl) ==
  LET north == cl.r <= 2
      west == cl.c <= 2
  IN  IF north /\ west THEN "NW"
      ELSE IF north /\ ~west THEN "NE"
      ELSE IF ~north /\ west THEN "SW"
      ELSE "SE"

\* The k cells of least heat: the sort of topCellsByHeat turned around.
coldCellsByHeat(heat, k) ==
  LET Heat(cl) == heat[cl]
  IN  SubSeq(SortAscending(AllCells, Heat), 1, k)

\* all.sort((a, b) => b.v - a.v).slice(0, k)
topCellsByHeat(heat, k) ==
  LET NegHeat(cl) == 0 - heat[cl]
  IN  SubSeq(SortAscending(AllCells, NegHeat), 1, k)

\* The confidence computed from the least heat instead of the greatest.
heatConfidenceOfLeast(heat) ==
  LET mn == SetMin({ heat[q] : q \in Cells })
  IN  Max2(35, Min2(95, (35 * Scale + mn * 60 + Scale \div 2) \div Scale))

\* Math.max(35, Math.min(95, Math.round(35 + mx * 60)))
heatConfidence(heat) ==
  LET mx == SetMax({0} \cup { heat[q] : q \in Cells })
  IN  Max2(35, Min2(95, (35 * Scale + mx * 60 + Scale \div 2) \div Scale))

\* The line a step of the pursuer AI sends: the quadrant of tops[0], the
\* confidence, and whether a trace is known (which picks the wording).
radioLine(kind, heat, hasAnyTrace) ==
  [kind |-> kind, focus |-> quadrantOfCell(topCellsByHeat(heat, 3)[1]),
   conf |-> heatConfidence(heat), trace |-> hasAnyTrace]

\* pushRadio: the radio state after one more line.
pushRadio(radio, currentTurn, line) ==
  LET current == IF radio.turn = currentTurn THEN radio.lines ELSE << >>
  IN  [turn |-> currentTurn, lines |-> LastN(Append(current, line), 5)]

-----------------------------------------------------------------------------
(* Bounds on what the players and the random draws supply.                 *)

\* The evader's start cell (randomCell, or the human's choice) is one of
\* the first NumStartCells cells in row-major order.
NumStartCells == 2
\* Units are placed on the first NumSetupNodes nodes, in row-major order
\* (the human takes back only the unit placed last; uniqueRandomNodes draws
\* ascending nodes), and the human pursuer moves units within the first
\* NumMoveNodes nodes and searches within the first NumSearchCells cells.
NumSetupNodes == 3
NumMoveNodes == 4
NumSearchCells == 4
\* The human evader taps cells among the first NumEvaderCells cells.
NumEvaderCells == 12
\* During the first PoliceFreeTurns turns the human pursuer selects, moves
\* and switches mode at will; later it takes the units in index order and
\* only searches.
PoliceFreeTurns == 1
\* Later the human evader taps the cell the escape planner would choose.
EvaderFreeTurns == 3
\* During the first AiFreeTurns turns the pursuer AI's random draws are
\* free.  Later its coin (Math.random() < 0.55 or 0.3) comes up "search"
\* and its jitters are equal, so that the first of the best scores wins.
AiFreeTurns == 1

CellIndex(cl) == cl.r * GRID + cl.c
NodeIndex(n) == n.r * NODE + n.c

StartCells == { cl \in Cells : CellIndex(cl) < NumStartCells }
SetupNodes == { n \in Nodes : NodeIndex(n) < NumSetupNodes }
MoveNodes == { n \in Nodes : NodeIndex(n) < NumMoveNodes }
SearchCells == { cl \in Cells : CellIndex(cl) < NumSearchCells }
EvaderCells == { cl \in Cells : CellIndex(cl) < NumEvaderCells }

-----------------------------------------------------------------------------
(* The game state *)

NoActed == << FALSE, FALSE, FALSE >>

\* The fields every new match starts from (reset, choosePassPlay,
\* chooseRoleSingle and the initial useState value agree on them).
FreshMatch ==
  /\ turn' = 1
  /\ selectedHeli' = NoHeli
  /\ actionsLeft' = ACTIONS_PER_TURN
  /\ heliActed' = NoActed
  /\ revealed' = {}
  /\ searched' = {}
  /\ lastPoliceSearches' = << >>
  /\ policeAiRadio' = [turn |-> 1, lines |-> << >>]
  /\ policeAiThinking' = FALSE
  /\ criminalMoving' = FALSE
  /\ winner' = "NONE"
  /\ acts' = 0

\* clearAiTimers without the calls of window.clearTimeout.
clearAiTimersKeepsPending ==
  /\ aiRunning' = FALSE
  /\ aiTimers' = aiTimers

\* clearAiTimers
clearAiTimers ==
  /\ aiRunning' = FALSE
  /\ aiTimers' = << >>

Init ==
  /\ mode = "SINGLE"
  /\ role = "NONE"
  /\ viewer = "POLICE"
  /\ phase = "ROLE_SELECT"
  /\ turn = 1
  /\ helicopters = << >>
  /\ selectedHeli = NoHeli
  /\ actionsLeft = ACTIONS_PER_TURN
  /\ heliActed = NoActed
  /\ criminalPos = NoCell
  /\ visits = << >>
  /\ revealed = {}
  /\ searched = {}
  /\ criminalPath = << >>
  /\ lastPoliceSearches = << >>
  /\ policeAiRadio = [turn |-> 1, lines |-> << >>]
  /\ policeAiThinking = FALSE
  /\ criminalMoving = FALSE
  /\ winner = "NONE"
  /\ handoff = [show |-> FALSE, to |-> "POLICE"]
  /\ policeSearchMode = FALSE
  /\ aiRunning = FALSE
  /\ aiTimers = << >>
  /\ acts = 0

\* The reset button of the header, shown outside the title screen.
reset ==
  /\ phase # "ROLE_SELECT"
  /\ clearAiTimers
  /\ policeSearchMode' = FALSE
  /\ FreshMatch
  /\ mode' = "SINGLE"
  /\ role' = "NONE"
  /\ viewer' = "POLICE"
  /\ phase' = "ROLE_SELECT"
  /\ helicopters' = << >>
  /\ criminalPos' = NoCell
  /\ visits' = << >>
  /\ criminalPath' = << >>
  /\ handoff' = [show |-> FALSE, to |-> "POLICE"]

\* The three buttons of the title screen.
choosePassPlay ==
  /\ phase = "ROLE_SELECT"
  /\ clearAiTimers
  /\ policeSearchMode' = FALSE
  /\ FreshMatch
  /\ mode' = "PASS_PLAY"
  /\ role' = "NONE"
  /\ viewer' = "POLICE"
  /\ phase' = "POLICE_SETUP"
  /\ helicopters' = << >>
  /\ criminalPos' = NoCell
  /\ visits' = << >>
  /\ criminalPath' = << >>
  /\ handoff' = [show |-> FALSE, to |-> "POLICE"]

chooseRoleSinglePolice(c0) ==
  /\ phase = "ROLE_SELECT"
  /\ clearAiTimers
  /\ policeSearchMode' = FALSE
  /\ FreshMatch
  /\ mode' = "SINGLE"
  /\ role' = "POLICE"
  /\ viewer' = "POLICE"
  /\ phase' = "POLICE_SETUP"
  /\ helicopters' = << >>
  /\ criminalPos' = c0
  /\ visits' = (keyCell(c0) :> << 1 >>)
  /\ criminalPath' = << c0 >>
  /\ handoff' = [show |-> FALSE, to |-> "POLICE"]

\* helis is what uniqueRandomNodes(3) returns: three distinct nodes.
chooseRoleSingleCriminal(helis) ==
  /\ phase = "ROLE_SELECT"
  /\ clearAiTimers
  /\ policeSearchMode' = FALSE
  /\ FreshMatch
  /\ mode' = "SINGLE"
  /\ role' = "CRIMINAL"
  /\ viewer' = "CRIMINAL"
  /\ phase' = "CRIMINAL_HIDE"
  /\ helicopters' = helis
  /\ criminalPos' = NoCell
  /\ visits' = << >>
  /\ criminalPath' = << >>
  /\ handoff' = [show |-> FALSE, to |-> "CRIMINAL"]

\* The outcomes of uniqueRandomNodes(3) within the bound.
RandomNodeTriples ==
  { h \in [1..3 -> SetupNodes] :
      NodeIndex(h[1]) < NodeIndex(h[2]) /\ NodeIndex(h[2]) < NodeIndex(h[3]) }

acceptHandoff ==
  /\ handoff.show
  /\ viewer' = handoff.to
  /\ handoff' = [show |-> FALSE, to |-> handoff.to]
  /\ UNCHANGED << mode, role, phase, turn, helicopters, selectedHeli, actionsLeft,
                  heliActed, criminalPos, visits, revealed, searched, criminalPath,
                  lastPoliceSearches, policeAiRadio, policeAiThinking,
                  criminalMoving, winner, policeSearchMode, aiRunning, aiTimers,
                  acts >>

-----------------------------------------------------------------------------
(* Setup *)

\* findIndex: the 0-based index of the first unit on node n, or -1.
HeliIndexAt(n) ==
  IF \E i \in 1..Len(helicopters) : helicopters[i] = n
  THEN SetMin({ i \in 1..Len(helicopters) : helicopters[i] = n }) - 1
  ELSE -1

\* Array.prototype.splice(idx, 1) on a copy
RemoveAt(s, idx) == SubSeq(s, 1, idx) \o SubSeq(s, idx + 2, Len(s))

toggleHeliSetupAccepts(n) ==
  /\ phase = "POLICE_SETUP"
  /\ ~(mode = "PASS_PLAY" /\ viewer # "POLICE")
  /\ (HeliIndexAt(n) >= 0 \/ Len(helicopters) < 3)

toggleHeliSetup(n) ==
  IF toggleHeliSetupAccepts(n)
  THEN /\ helicopters' = IF HeliIndexAt(n) >= 0
                         THEN RemoveAt(helicopters, HeliIndexAt(n))
                         ELSE Append(helicopters, n)
       /\ UNCHANGED << mode, role, viewer, phase, turn, selectedHeli, actionsLeft,
                       heliActed, criminalPos, visits, revealed, searched,
                       criminalPath, lastPoliceSearches, policeAiRadio,
                       policeAiThinking, criminalMoving, winner, handoff,
                       policeSearchMode, aiRunning, aiTimers, acts >>
  ELSE UNCHANGED vars

\* The "redo placement" button of the setup screen.
clearSetup ==
  /\ phase = "POLICE_SETUP"
  /\ helicopters' = << >>
  /\ selectedHeli' = NoHeli
  /\ UNCHANGED << mode, role, viewer, phase, turn, actionsLeft, heliActed,
                  criminalPos, visits, revealed, searched, criminalPath,
                  lastPoliceSearches, policeAiRadio, policeAiThinking,
                  criminalMoving, winner, handoff, policeSearchMode, aiRunning,
                  aiTimers, acts >>

\* startFromSetup without the count of the units.
startFromSetupAcceptsAnyCount == phase = "POLICE_SETUP"

startFromSetupAccepts == phase = "POLICE_SETUP" /\ Len(helicopters) = 3

startFromSetup ==
  IF startFromSetupAccepts
  THEN /\ policeSearchMode' = FALSE
       /\ actionsLeft' = ACTIONS_PER_TURN
       /\ heliActed' = NoActed
       /\ IF mode = "PASS_PLAY"
          THEN /\ phase' = "CRIMINAL_HIDE"
               /\ selectedHeli' = NoHeli
               /\ handoff' = [show |-> TRUE, to |-> "CRIMINAL"]
          ELSE /\ phase' = "POLICE_TURN"
               /\ selectedHeli' = 0
               /\ UNCHANGED handoff
       /\ UNCHANGED << mode, role, viewer, turn, helicopters, criminalPos, visits,
                       revealed, searched, criminalPath, lastPoliceSearches,
                       policeAiRadio, policeAiThinking, criminalMoving, winner,
                       aiRunning, aiTimers, acts >>
  ELSE UNCHANGED vars

-----------------------------------------------------------------------------
(* The human pursuer's turn *)

selectHeliAccepts ==
  /\ phase = "POLICE_TURN"
  /\ ~criminalMoving
  /\ ~(mode = "PASS_PLAY" /\ viewer # "POLICE")

selectHeli(i) ==
  IF selectHeliAccepts
  THEN /\ selectedHeli' = i
       /\ UNCHANGED << mode, role, viewer, phase, turn, helicopters, actionsLeft,
                       heliActed, criminalPos, visits, revealed, searched,
                       criminalPath, lastPoliceSearches, policeAiRadio,
                       policeAiThinking, criminalMoving, winner, handoff,
                       policeSearchMode, aiRunning, aiTimers, acts >>
  ELSE UNCHANGED vars

\* An action that leaves the budget as it was.
SpendNothing(left) == left

\* actionsLeft: s.actionsLeft - 1
Spend(left) == left - 1

\* currentHeliCanAct without the test of the viewer.
currentHeliCanActAnyViewer ==
  /\ phase = "POLICE_TURN"
  /\ selectedHeli # NoHeli
  /\ ~(actionsLeft <= 0)
  /\ ~criminalMoving
  /\ ~At(heliActed, selectedHeli)

currentHeliCanAct ==
  /\ phase = "POLICE_TURN"
  /\ selectedHeli # NoHeli
  /\ ~(actionsLeft <= 0)
  /\ ~criminalMoving
  /\ ~(mode = "PASS_PLAY" /\ viewer # "POLICE")
  /\ ~At(heliActed, selectedHeli)

\* The nodes held by the units other than unit i.
OccupiedBut(helis, i) ==
  { keyNode(helis[j]) : j \in { q \in 1..Len(helis) : q # i + 1 } }

\* moveHeliPlayer without the test for a node another unit holds.
moveHeliPlayerAcceptsOccupied(to) ==
  /\ phase = "POLICE_TURN"
  /\ selectedHeli # NoHeli
  /\ currentHeliCanAct
  /\ \E i \in 1..Len(neighborsNode(At(helicopters, selectedHeli))) :
        keyNode(neighborsNode(At(helicopters, selectedHeli))[i]) = keyNode(to)

\* moveHeliPlayer passes all of its early returns.
moveHeliPlayerAccepts(to) ==
  /\ phase = "POLICE_TURN"
  /\ selectedHeli # NoHeli
  /\ currentHeliCanAct
  /\ keyNode(to) \notin OccupiedBut(helicopters, selectedHeli)
  /\ \E i \in 1..Len(neighborsNode(At(helicopters, selectedHeli))) :
        keyNode(neighborsNode(At(helicopters, selectedHeli))[i]) = keyNode(to)

moveHeliPlayer(to) ==
  IF moveHeliPlayerAccepts(to)
  THEN /\ helicopters' = [helicopters EXCEPT ![selectedHeli + 1] = to]
       /\ heliActed' = [heliActed EXCEPT ![selectedHeli + 1] = TRUE]
       /\ actionsLeft' = Spend(actionsLeft)
       /\ acts' = acts + 1
       /\ UNCHANGED << mode, role, viewer, phase, turn, selectedHeli, criminalPos,
                       visits, revealed, searched, criminalPath,
                       lastPoliceSearches, policeAiRadio, policeAiThinking,
                       criminalMoving, winner, handoff, policeSearchMode,
                       aiRunning, aiTimers >>
  ELSE UNCHANGED vars

setPoliceModeSearch ==
  IF phase = "POLICE_TURN" /\ currentHeliCanAct
  THEN /\ policeSearchMode' = TRUE
       /\ UNCHANGED << mode, role, viewer, phase, turn, helicopters, selectedHeli,
                       actionsLeft, heliActed, criminalPos, visits, revealed,
                       searched, criminalPath, lastPoliceSearches, policeAiRadio,
                       policeAiThinking, criminalMoving, winner, handoff,
                       aiRunning, aiTimers, acts >>
  ELSE UNCHANGED vars

setPoliceModeMove ==
  IF phase = "POLICE_TURN" /\ ~(mode = "PASS_PLAY" /\ viewer # "POLICE")
  THEN /\ policeSearchMode' = FALSE
       /\ UNCHANGED << mode, role, viewer, phase, turn, helicopters, selectedHeli,
                       actionsLeft, heliActed, criminalPos, visits, revealed,
                       searched, criminalPath, lastPoliceSearches, policeAiRadio,
                       policeAiThinking, criminalMoving, winner, handoff,
                       aiRunning, aiTimers, acts >>
  ELSE UNCHANGED vars

\* cand.some(c => c.r === target.r && c.c === target.c)
SomeCell(cand, target) ==
  \E i \in 1..Len(cand) : cand[i].r = target.r /\ cand[i].c = target.c

\* searchCellPlayer without the test of the cells around the unit.
searchCellPlayerAcceptsAnywhere(target) ==
  /\ phase = "POLICE_TURN"
  /\ selectedHeli # NoHeli
  /\ policeSearchMode
  /\ currentHeliCanAct

\* searchCellPlayer passes all of its early returns.
searchCellPlayerAccepts(target) ==
  /\ phase = "POLICE_TURN"
  /\ selectedHeli # NoHeli
  /\ policeSearchMode
  /\ currentHeliCanAct
  /\ SomeCell(surroundingCells(At(helicopters, selectedHeli)), target)

\* Arrests with the column comparison lost.
ArrestsSameRow(target, pos) == pos # NoCell /\ target.r = pos.r

\* The search hits the evader.
Arrests(target, pos) == pos # NoCell /\ target.r = pos.r /\ target.c = pos.c

\* The searched cell marked as revealed whether or not it was visited.
RevealAlways(rev, vis, target) == rev \cup {keyCell(target)}

\* revealed after a search of target that did not arrest.
RevealAfter(rev, vis, target) ==
  IF /\ keyCell(target) \in DOMAIN vis
     /\ Len(vis[keyCell(target)]) > 0
     /\ keyCell(target) \notin rev
  THEN rev \cup {keyCell(target)}
  ELSE rev

searchCellPlayer(target) ==
  IF searchCellPlayerAccepts(target)
  THEN /\ searched' = searched \cup {keyCell(target)}
       /\ lastPoliceSearches' =
            LastN(Append(lastPoliceSearches,
                         [turn |-> turn, target |-> target, heliIndex |-> selectedHeli]), 3)
       /\ acts' = acts + 1
       /\ IF Arrests(target, criminalPos)
          THEN /\ phase' = "END"
               /\ winner' = "POLICE"
               /\ UNCHANGED << revealed, heliActed, actionsLeft >>
          ELSE /\ revealed' = RevealAfter(revealed, visits, target)
               /\ heliActed' = [heliActed EXCEPT ![selectedHeli + 1] = TRUE]
               /\ actionsLeft' = Spend(actionsLeft)
               /\ UNCHANGED << phase, winner >>
       /\ UNCHANGED << mode, role, viewer, turn, helicopters, selectedHeli,
                       criminalPos, visits, criminalPath, policeAiRadio,
                       policeAiThinking, criminalMoving, handoff,
                       policeSearchMode, aiRunning, aiTimers >>
  ELSE UNCHANGED vars

\* The turn limit test with an off-by-one comparison.
turnLimitPassed(t) == t > MAX_TURN

\* s.turn >= MAX_TURN: the pursuer's turn that ends now was the last one.
turnLimitReached(t) == t >= MAX_TURN

\* endPoliceTurn.  In single-player mode it draws the evader's thinking time
\* and schedules the evader's move, which remembers nextTurn.
endPoliceTurn ==
  IF phase = "POLICE_TURN" /\ ~criminalMoving
  THEN IF turnLimitReached(turn)
       THEN /\ phase' = "END"
            /\ winner' = "CRIMINAL"
            /\ UNCHANGED << mode, role, viewer, turn, helicopters, selectedHeli,
                            actionsLeft, heliActed, criminalPos, visits, revealed,
                            searched, criminalPath, lastPoliceSearches,
                            policeAiRadio, policeAiThinking, criminalMoving,
                            handoff, policeSearchMode, aiRunning, aiTimers, acts >>
       ELSE IF mode = "PASS_PLAY"
            THEN /\ phase' = "CRIMINAL_MOVE"
                 /\ actionsLeft' = ACTIONS_PER_TURN
                 /\ selectedHeli' = NoHeli
                 /\ handoff' = [show |-> TRUE, to |-> "CRIMINAL"]
                 /\ UNCHANGED << mode, role, viewer, turn, helicopters, heliActed,
                                 criminalPos, visits, revealed, searched,
                                 criminalPath, lastPoliceSearches, policeAiRadio,
                                 policeAiThinking, criminalMoving, winner,
                                 policeSearchMode, aiRunning, aiTimers, acts >>
            ELSE /\ aiRunning' = FALSE
                 /\ aiTimers' = << [kind |-> "criminalAi", arg |-> turn + 1] >>
                 /\ phase' = "CRIMINAL_AI_MOVING"
                 /\ criminalMoving' = TRUE
                 /\ UNCHANGED << mode, role, viewer, turn, helicopters,
                                 selectedHeli, actionsLeft, heliActed, criminalPos,
                                 visits, revealed, searched, criminalPath,
                                 lastPoliceSearches, policeAiRadio,
                                 policeAiThinking, winner, handoff,
                                 policeSearchMode, acts >>
  ELSE UNCHANGED vars

\* The effect waiting for a budget below 0.
autoEndPoliceTurnBelowZero ==
  /\ phase = "POLICE_TURN"
  /\ actionsLeft < 0
  /\ ~criminalMoving
  /\ endPoliceTurn

\* The effect that ends the pursuer's turn: while phase is POLICE_TURN,
\* actionsLeft is 0 and the evader is not moving, a zero-delay timer is
\* pending that calls endPoliceTurn.
autoEndPoliceTurn ==
  /\ phase = "POLICE_TURN"
  /\ actionsLeft = 0
  /\ ~criminalMoving
  /\ endPoliceTurn

\* The visit stamped with the turn that ends instead of the new one.
StampVisitStale(vis, k, nextTurn) == (k :> << nextTurn - 1 >>) @@ vis

\* Array.from(new Set([...(visits[k] ?? []), nextTurn]))
StampVisit(vis, k, nextTurn) ==
  LET old == IF k \in DOMAIN vis THEN vis[k] ELSE << >>
      stamped == IF nextTurn \in Range(old) THEN old ELSE Append(old, nextTurn)
  IN  (k :> stamped) @@ vis

\* What the evader AI's delayed callback makes of the planner's answer mv.
criminalAiApply(nextTurn, mv) ==
  IF role # "POLICE" \/ criminalPos = NoCell
  THEN UNCHANGED << mode, role, viewer, phase, turn, helicopters, selectedHeli,
                    actionsLeft, heliActed, criminalPos, visits, revealed, searched,
                    criminalPath, lastPoliceSearches, policeAiRadio,
                    policeAiThinking, criminalMoving, winner, handoff,
                    policeSearchMode, aiRunning, acts >>
  ELSE IF mv.stuck
       THEN /\ phase' = "END"
            /\ winner' = "CRIMINAL"
            /\ criminalMoving' = FALSE
            /\ UNCHANGED << mode, role, viewer, turn, helicopters, selectedHeli,
                            actionsLeft, heliActed, criminalPos, visits, revealed,
                            searched, criminalPath, lastPoliceSearches,
                            policeAiRadio, policeAiThinking, handoff,
                            policeSearchMode, aiRunning, acts >>
       ELSE /\ turn' = nextTurn
            /\ criminalPos' = mv.next
            /\ visits' = StampVisit(visits, keyCell(mv.next), nextTurn)
            /\ criminalPath' = Append(criminalPath, mv.next)
            /\ phase' = "POLICE_TURN"
            /\ actionsLeft' = ACTIONS_PER_TURN
            /\ heliActed' = NoActed
            /\ selectedHeli' = 0
            /\ criminalMoving' = FALSE
            /\ lastPoliceSearches' = << >>
            /\ acts' = 0
            /\ UNCHANGED << mode, role, viewer, helicopters, revealed, searched,
                            policeAiRadio, policeAiThinking, winner, handoff,
                            policeSearchMode, aiRunning >>

\* The evader AI's delayed callback of endPoliceTurn.
criminalAiCallback(nextTurn) ==
  criminalAiApply(nextTurn, criminalAiNextMoveNoStuck(criminalPos, visits, turn))

\* The earliest pending timer of aiTimersRef fires.
criminalAiTimer ==
  /\ aiTimers # << >>
  /\ Head(aiTimers).kind = "criminalAi"
  /\ aiTimers' = Tail(aiTimers)
  /\ criminalAiCallback(Head(aiTimers).arg)

-----------------------------------------------------------------------------
(* The human evader *)

criminalChooseStartAccepts ==
  /\ phase = "CRIMINAL_HIDE"
  /\ ~(mode = "PASS_PLAY" /\ viewer # "CRIMINAL")
  /\ criminalPos = NoCell

\* runPoliceAiTurn as started by its effect: clearAiTimers, then the three
\* step timers at 600, 1500 and 2400 ms.
StartPoliceAiTurn ==
  /\ aiRunning' = TRUE
  /\ policeAiThinking' = TRUE
  /\ aiTimers' = << [kind |-> "aiStep", arg |-> 0], [kind |-> "aiStep", arg |-> 1],
                    [kind |-> "aiStep", arg |-> 2] >>

criminalChooseStart(cl) ==
  IF criminalChooseStartAccepts
  THEN /\ criminalPos' = cl
       /\ visits' = (keyCell(cl) :> << 1 >>) @@ visits
       /\ criminalPath' = << cl >>
       /\ actionsLeft' = ACTIONS_PER_TURN
       /\ heliActed' = NoActed
       /\ IF mode = "PASS_PLAY"
          THEN /\ phase' = "POLICE_TURN"
               /\ selectedHeli' = 0
               /\ handoff' = [show |-> TRUE, to |-> "POLICE"]
               /\ UNCHANGED << policeAiThinking, aiRunning, aiTimers >>
          ELSE /\ phase' = "POLICE_AI_TURN"
               /\ selectedHeli' = NoHeli
               /\ StartPoliceAiTurn
               /\ UNCHANGED handoff
       /\ UNCHANGED << mode, role, viewer, turn, helicopters, revealed, searched,
                       lastPoliceSearches, policeAiRadio, criminalMoving, winner,
                       policeSearchMode, acts >>
  ELSE UNCHANGED vars

\* criminalMoveTo without the test of the visited cells.
criminalMoveToAcceptsVisited(cl) ==
  /\ phase = "CRIMINAL_MOVE"
  /\ criminalPos # NoCell
  /\ ~(mode = "PASS_PLAY" /\ viewer # "CRIMINAL")
  /\ SomeCell(neighborsCell(criminalPos), cl)

\* criminalMoveTo without the test of the viewer.
criminalMoveToAcceptsAnyViewer(cl) ==
  /\ phase = "CRIMINAL_MOVE"
  /\ criminalPos # NoCell
  /\ SomeCell(neighborsCell(criminalPos), cl)
  /\ keyCell(cl) \notin DOMAIN visits

\* criminalMoveTo without the test of adjacency.
criminalMoveToAcceptsFarCell(cl) ==
  /\ phase = "CRIMINAL_MOVE"
  /\ criminalPos # NoCell
  /\ ~(mode = "PASS_PLAY" /\ viewer # "CRIMINAL")
  /\ keyCell(cl) \notin DOMAIN visits

\* criminalMoveTo passes all of its early returns.
criminalMoveToAccepts(cl) ==
  /\ phase = "CRIMINAL_MOVE"
  /\ criminalPos # NoCell
  /\ ~(mode = "PASS_PLAY" /\ viewer # "CRIMINAL")
  /\ SomeCell(neighborsCell(criminalPos), cl)
  /\ keyCell(cl) \notin DOMAIN visits

criminalMoveTo(cl) ==
  IF criminalMoveToAccepts(cl)
  THEN /\ turn' = turn + 1
       /\ criminalPos' = cl
       /\ visits' = StampVisit(visits, keyCell(cl), turn + 1)
       /\ criminalPath' = Append(criminalPath, cl)
       /\ actionsLeft' = ACTIONS_PER_TURN
       /\ heliActed' = NoActed
       /\ lastPoliceSearches' = << >>
       /\ acts' = 0
       /\ IF mode = "PASS_PLAY"
          THEN /\ phase' = "POLICE_TURN"
               /\ selectedHeli' = 0
               /\ handoff' = [show |-> TRUE, to |-> "POLICE"]
               /\ UNCHANGED << policeAiThinking, aiRunning, aiTimers >>
          ELSE /\ phase' = "POLICE_AI_TURN"
               /\ selectedHeli' = NoHeli
               /\ StartPoliceAiTurn
               /\ UNCHANGED handoff
       /\ UNCHANGED << mode, role, viewer, helicopters, revealed, searched,
                       policeAiRadio, criminalMoving, winner, policeSearchMode >>
  ELSE UNCHANGED vars

-----------------------------------------------------------------------------
(* The pursuer AI: the timers of runPoliceAiTurn *)

\* The draws the bound AiFreeTurns allows among the cells that can win: all
\* of them, or with equal jitters the one the loop or the sort meets first.
\* best is a sequence in the order the code scans the cells.
AiDraw(best) == IF turn <= AiFreeTurns THEN Range(best) ELSE {best[1]}

\* The coin tossed on the last turn as on any turn on which it is free.
doMoveDrawsOnLastTurn(t) ==
  IF t >= MAX_TURN \/ t <= AiFreeTurns THEN BOOLEAN ELSE {FALSE}

\* doMove = isLastTurn ? false : Math.random() < (hasAnyTrace ? 0.55 : 0.3):
\* the values doMove can take on turn t.  Before the last turn the coin is
\* free during the first AiFreeTurns turns.
doMoveDraws(t) ==
  IF t >= MAX_TURN THEN {FALSE}
  ELSE IF t <= AiFreeTurns THEN BOOLEAN ELSE {FALSE}

\* The state updater of one step.  doMove and target are the random draws;
\* searchTarget is the outcome of bestSearchTarget.
\* The unit of greatest index among those that have not acted.
lastCandidate(acted) == SetMax({ idx \in 0..2 : ~At(acted, idx) })

\* candidates[0]: the unit of least index among those that have not acted.
firstCandidate(acted) == SetMin({ idx \in 0..2 : ~At(acted, idx) })

\* The step updater returning the state as it is while no trace is known.
policeAiStepAppliesWithTrace ==
  /\ phase = "POLICE_AI_TURN"
  /\ criminalPos # NoCell
  /\ ~(actionsLeft <= 0)
  /\ \E idx \in 0..2 : ~At(heliActed, idx)
  /\ revealed # {}

policeAiStepApplies ==
  /\ phase = "POLICE_AI_TURN"
  /\ criminalPos # NoCell
  /\ ~(actionsLeft <= 0)
  /\ \E idx \in 0..2 : ~At(heliActed, idx)

policeAiStep(doMove, target, searchTarget) ==
  LET heat == buildHeat(turn, visits, revealed)
      heliIndex == firstCandidate(heliActed)
      heliNode == At(helicopters, heliIndex)
      hasAnyTrace == revealed # {}
      occupied == OccupiedBut(helicopters, heliIndex)
      Free(n) == keyNode(n) \notin occupied
      moveCandidates == SelectSeq(neighborsNode(heliNode), Free)
      to == bestMoveNodeTowardAvoidOccupied(heliNode, target, occupied)
      finalTo == IF keyNode(to) # keyNode(heliNode) THEN to ELSE moveCandidates[1]
  IN
  IF doMove /\ Len(moveCandidates) > 0
  THEN /\ helicopters' = [helicopters EXCEPT ![heliIndex + 1] = finalTo]
       /\ heliActed' = [heliActed EXCEPT ![heliIndex + 1] = TRUE]
       /\ policeAiRadio' = pushRadio(policeAiRadio, turn,
                                     radioLine("move", heat, hasAnyTrace))
       /\ selectedHeli' = heliIndex
       /\ actionsLeft' = Spend(actionsLeft)
       /\ acts' = acts + 1
       /\ UNCHANGED << mode, role, viewer, phase, turn, criminalPos, visits,
                       revealed, searched, criminalPath, lastPoliceSearches,
                       policeAiThinking, criminalMoving, winner, handoff,
                       policeSearchMode, aiRunning >>
  ELSE /\ searched' = searched \cup {keyCell(searchTarget)}
       /\ policeAiRadio' = pushRadio(policeAiRadio, turn,
                                     radioLine("search", heat, hasAnyTrace))
       /\ lastPoliceSearches' =
            LastN(Append(lastPoliceSearches,
                         [turn |-> turn, target |-> searchTarget,
                          heliIndex |-> heliIndex]), 3)
       /\ selectedHeli' = heliIndex
       /\ acts' = acts + 1
       /\ IF Arrests(searchTarget, criminalPos)
          THEN /\ aiRunning' = FALSE
               /\ phase' = "END"
               /\ winner' = "POLICE"
               /\ actionsLeft' = 0
               /\ policeAiThinking' = FALSE
               /\ UNCHANGED << revealed, heliActed >>
          ELSE /\ revealed' = RevealAfter(revealed, visits, searchTarget)
               /\ heliActed' = [heliActed EXCEPT ![heliIndex + 1] = TRUE]
               /\ actionsLeft' = Spend(actionsLeft)
               /\ UNCHANGED << aiRunning, phase, winner, policeAiThinking >>
       /\ UNCHANGED << mode, role, viewer, turn, helicopters, criminalPos, visits,
                       criminalPath, criminalMoving, handoff, policeSearchMode >>

\* What the step updater can decide in state prev, over all its random
\* draws: the unit that acts, whether it moves or searches, the node or the
\* cell, and the radio line.  Empty where the updater returns prev.
policeAiStepChoices(prev) ==
  IF \/ prev.phase # "POLICE_AI_TURN"
     \/ prev.criminalPos = NoCell
     \/ prev.actionsLeft <= 0
     \/ \A idx \in 0..2 : At(prev.heliActed, idx)
  THEN {}
  ELSE LET heat == buildHeat(prev.turn, prev.visits, prev.revealed)
           heliIndex == firstCandidate(prev.heliActed)
           heliNode == At(prev.helicopters, heliIndex)
           hasAnyTrace == prev.revealed # {}
           isLastTurn == prev.turn >= MAX_TURN
           occupied == OccupiedBut(prev.helicopters, heliIndex)
           Free(n) == keyNode(n) \notin occupied
           moveCandidates == SelectSeq(neighborsNode(heliNode), Free)
           To(target) == bestMoveNodeTowardAvoidOccupied(heliNode, target, occupied)
           FinalTo(target) == IF keyNode(To(target)) # keyNode(heliNode)
                              THEN To(target) ELSE moveCandidates[1]
           moveLine == radioLine("move", heat, hasAnyTrace)
           searchLine == radioLine("search", heat, hasAnyTrace)
       IN  (IF isLastTurn \/ Len(moveCandidates) = 0 THEN {}
            ELSE { [unit |-> heliIndex, kind |-> "move", at |-> FinalTo(target),
                    line |-> moveLine] :
                     target \in Range(bestCellByHeat(heat)) })
           \cup
           { [unit |-> heliIndex, kind |-> "search", at |-> target,
              line |-> searchLine] :
               target \in Range(bestSearchTarget(heliNode, heat, prev.searched)) }

\* One of the three step timers fires.  The last one schedules the
\* end-of-turn timer whether or not its updater changed anything.
policeAiStepTimer ==
  /\ aiTimers # << >>
  /\ Head(aiTimers).kind = "aiStep"
  /\ IF ~aiRunning
     THEN /\ aiTimers' = Tail(aiTimers)
          /\ UNCHANGED << mode, role, viewer, phase, turn, helicopters,
                          selectedHeli, actionsLeft, heliActed, criminalPos, visits,
                          revealed, searched, criminalPath, lastPoliceSearches,
                          policeAiRadio, policeAiThinking, criminalMoving, winner,
                          handoff, policeSearchMode, aiRunning, acts >>
     ELSE /\ aiTimers' = IF Head(aiTimers).arg = ACTIONS_PER_TURN - 1
                         THEN Append(Tail(aiTimers), [kind |-> "aiEnd", arg |-> 0])
                         ELSE Tail(aiTimers)
          /\ IF policeAiStepApplies
             THEN LET heat == buildHeat(turn, visits, revealed)
                      heliNode == At(helicopters, firstCandidate(heliActed))
                  IN  \E doMove \in doMoveDraws(turn) :
                        IF doMove
                        THEN \E target \in AiDraw(bestCellByHeat(heat)) :
                               \E searchTarget \in
                                    AiDraw(bestSearchTarget(heliNode, heat, searched)) :
                                 policeAiStep(doMove, target, searchTarget)
                        ELSE \E searchTarget \in
                                  AiDraw(bestSearchTarget(heliNode, heat, searched)) :
                               policeAiStep(doMove, NoCell, searchTarget)
             ELSE UNCHANGED << mode, role, viewer, phase, turn, helicopters,
                               selectedHeli, actionsLeft, heliActed, criminalPos,
                               visits, revealed, searched, criminalPath,
                               lastPoliceSearches, policeAiRadio, policeAiThinking,
                               criminalMoving, winner, handoff, policeSearchMode,
                               aiRunning, acts >>

\* The end-of-turn timer without its test of the phase.
policeAiEndTimerAnyPhase ==
  /\ aiTimers # << >>
  /\ Head(aiTimers).kind = "aiEnd"
  /\ aiTimers' = Tail(aiTimers)
  /\ aiRunning' = FALSE
  /\ policeAiThinking' = FALSE
  /\ selectedHeli' = NoHeli
  /\ IF turnLimitReached(turn)
     THEN phase' = "END" /\ winner' = "CRIMINAL"
     ELSE phase' = "CRIMINAL_MOVE" /\ UNCHANGED winner
  /\ UNCHANGED << mode, role, viewer, turn, helicopters, actionsLeft,
                  heliActed, criminalPos, visits, revealed, searched,
                  criminalPath, lastPoliceSearches, policeAiRadio,
                  criminalMoving, handoff, policeSearchMode, acts >>

\* The end-of-turn timer of runPoliceAiTurn.
policeAiEndTimer ==
  /\ aiTimers # << >>
  /\ Head(aiTimers).kind = "aiEnd"
  /\ aiTimers' = Tail(aiTimers)
  /\ IF phase # "POLICE_AI_TURN"
     THEN UNCHANGED << mode, role, viewer, phase, turn, helicopters, selectedHeli,
                       actionsLeft, heliActed, criminalPos, visits, revealed,
                       searched, criminalPath, lastPoliceSearches, policeAiRadio,
                       policeAiThinking, criminalMoving, winner, handoff,
                       policeSearchMode, aiRunning, acts >>
     ELSE /\ aiRunning' = FALSE
          /\ policeAiThinking' = FALSE
          /\ selectedHeli' = NoHeli
          /\ IF turnLimitReached(turn)
             THEN phase' = "END" /\ winner' = "CRIMINAL"
             ELSE phase' = "CRIMINAL_MOVE" /\ UNCHANGED winner
          /\ UNCHANGED << mode, role, viewer, turn, helicopters, actionsLeft,
                          heliActed, criminalPos, visits, revealed, searched,
                          criminalPath, lastPoliceSearches, policeAiRadio,
                          criminalMoving, handoff, policeSearchMode, acts >>

-----------------------------------------------------------------------------
(* What the board shows *)

\* shouldShowCarNow: the board draws the evader on cell.
shouldShowCarNow(cell) ==
  IF criminalPos = NoCell THEN FALSE
  ELSE IF ~(criminalPos.r = cell.r /\ criminalPos.c = cell.c) THEN FALSE
  ELSE IF phase = "END" THEN TRUE
  ELSE IF mode = "PASS_PLAY" THEN viewer = "CRIMINAL"
  ELSE role = "CRIMINAL"

-----------------------------------------------------------------------------
(* The specification *)

\* The taps the bounds allow.
SetupTaps ==
  { n \in SetupNodes : \A i \in 1..Len(helicopters) :
                          NodeIndex(helicopters[i]) <= NodeIndex(n) }
PoliceFree == turn <= PoliceFreeTurns
SelectTaps ==
  IF PoliceFree THEN 0..2
  ELSE { i \in 0..2 : ~At(heliActed, i) /\ \A j \in 0..2 : j < i => At(heliActed, j) }
MoveTaps == IF PoliceFree THEN MoveNodes ELSE {}
EvaderTaps ==
  IF turn <= EvaderFreeTurns THEN EvaderCells
  ELSE IF phase # "CRIMINAL_MOVE" \/ criminalPos = NoCell THEN {}
  ELSE {criminalAiNextMoveNoStuck(criminalPos, visits, turn).next}

Next ==
  \/ reset
  \/ choosePassPlay
  \/ \E c0 \in StartCells : chooseRoleSinglePolice(c0)
  \/ \E helis \in RandomNodeTriples : chooseRoleSingleCriminal(helis)
  \/ acceptHandoff
  \/ \E n \in SetupTaps : toggleHeliSetup(n)
  \/ clearSetup
  \/ startFromSetup
  \/ \E i \in SelectTaps : selectHeli(i)
  \/ \E to \in MoveTaps : moveHeliPlayer(to)
  \/ setPoliceModeSearch
  \/ PoliceFree /\ setPoliceModeMove
  \/ \E target \in SearchCells : searchCellPlayer(target)
  \/ autoEndPoliceTurn
  \/ criminalAiTimer
  \/ \E cl \in StartCells : criminalChooseStart(cl)
  \/ \E cl \in EvaderTaps : criminalMoveTo(cl)
  \/ policeAiStepTimer
  \/ policeAiEndTimer

Spec == Init /\ [][Next]_vars

\* The timers that end the pursuer's turn fire: the zero-delay timer of
\* the effect, pending as long as its condition holds, and the end-of-turn
\* timer of runPoliceAiTurn, pending until it fires or is cleared.
TimersFireSpec ==
  Spec /\ WF_vars(autoEndPoliceTurn) /\ WF_vars(policeAiEndTimer)

-----------------------------------------------------------------------------
(* The escape planner over the histories an evader can have *)

\* The turns at which the evader's move is drawn among all its legal moves
\* instead of taken from the planner.
PlannerFreeTurns == 6

\* A single-player match against the AI evader as chooseRoleSingle and
\* startFromSetup leave it: the evader on its start cell, the three units
\* placed, the pursuer's first turn open.
PlannerInit ==
  /\ mode = "SINGLE"
  /\ role = "POLICE"
  /\ viewer = "POLICE"
  /\ phase = "POLICE_TURN"
  /\ turn = 1
  /\ helicopters = << [r |-> 0, c |-> 0], [r |-> 0, c |-> 1], [r |-> 0, c |-> 2] >>
  /\ selectedHeli = 0
  /\ actionsLeft = ACTIONS_PER_TURN
  /\ heliActed = NoActed
  /\ criminalPos \in Cells
  /\ visits = (keyCell(criminalPos) :> << 1 >>)
  /\ revealed = {}
  /\ searched = {}
  /\ criminalPath = << criminalPos >>
  /\ lastPoliceSearches = << >>
  /\ policeAiRadio = [turn |-> 1, lines |-> << >>]
  /\ policeAiThinking = FALSE
  /\ criminalMoving = FALSE
  /\ winner = "NONE"
  /\ handoff = [show |-> FALSE, to |-> "POLICE"]
  /\ policeSearchMode = FALSE
  /\ aiRunning = FALSE
  /\ aiTimers = << >>
  /\ acts = 0

\* The pursuer's turn ends; its moves and searches, which touch nothing the
\* planner reads, are left out.
PursuerPasses == phase = "POLICE_TURN" /\ endPoliceTurn

\* The evader's timer fires and the evader takes the legal move cl, whatever
\* the planner would answer: this draws the histories the planner is
\* applied to.
Wander(cl) ==
  /\ turn <= PlannerFreeTurns
  /\ aiTimers # << >>
  /\ Head(aiTimers).kind = "criminalAi"
  /\ criminalPos # NoCell
  /\ SomeCell(FreeNeighbors(criminalPos, DOMAIN visits), cl)
  /\ aiTimers' = Tail(aiTimers)
  /\ criminalAiApply(Head(aiTimers).arg, [next |-> cl, stuck |-> FALSE])

PlannerNext ==
  \/ PursuerPasses
  \/ criminalAiTimer
  \/ \E cl \in Cells : Wander(cl)

PlannerSpec == PlannerInit /\ [][PlannerNext]_vars

\* The evader follows the planner on every turn, from each of the 25 start
\* cells; a pending timer of the evader fires and the pursuer keeps ending
\* its turns.
EscapeNext ==
  \/ PursuerPasses
  \/ criminalAiTimer

\* The pending timer of the evader fires, whatever the planner answers to
\* its callback.
EvaderTimerFires ==
  /\ aiTimers # << >>
  /\ Head(aiTimers).kind = "criminalAi"
  /\ aiTimers' = Tail(aiTimers)
  /\ \E mv \in { [next |-> cl, stuck |-> FALSE] : cl \in Cells }
                 \cup { [next |-> criminalPos, stuck |-> TRUE] } :
       criminalAiApply(Head(aiTimers).arg, mv)

EscapeSpec ==
  PlannerInit /\ [][EscapeNext]_vars /\ WF_vars(PursuerPasses) /\ WF_vars(EvaderTimerFires)

-----------------------------------------------------------------------------
(* Two requests of the human pursuer handled in one render *)

\* moveHeliPlayer and searchCellPlayer test the state of the render they
\* were created in and hand setState an updater.  The updater takes
\* helicopters, heliActed, searched, revealed and lastPoliceSearches from
\* the copies the handler made of that render's state, and actionsLeft from
\* the state it is applied to.  When two requests are handled before the
\* next render, both handlers test the same state and both updaters are
\* applied, one after the other, in the next render.

\* The fields of the state the two updaters write.
PursuerFields ==
  [helicopters |-> helicopters, heliActed |-> heliActed,
   actionsLeft |-> actionsLeft, searched |-> searched, revealed |-> revealed,
   lastPoliceSearches |-> lastPoliceSearches, phase |-> phase, winner |-> winner]

\* The updater of moveHeliPlayer(to), applied to s.
moveHeliUpdater(s, to) ==
  [s EXCEPT !.helicopters = [helicopters EXCEPT ![selectedHeli + 1] = to],
            !.heliActed = [heliActed EXCEPT ![selectedHeli + 1] = TRUE],
            !.actionsLeft = Spend(s.actionsLeft)]

\* The updater of searchCellPlayer(target), applied to s.
searchCellUpdater(s, target) ==
  LET marks == LastN(Append(lastPoliceSearches,
                            [turn |-> turn, target |-> target,
                             heliIndex |-> selectedHeli]), 3)
  IN  IF Arrests(target, criminalPos)
      THEN [s EXCEPT !.phase = "END", !.winner = "POLICE",
                     !.searched = searched \cup {keyCell(target)},
                     !.lastPoliceSearches = marks]
      ELSE [s EXCEPT !.searched = searched \cup {keyCell(target)},
                     !.revealed = RevealAfter(revealed, visits, target),
                     !.heliActed = [heliActed EXCEPT ![selectedHeli + 1] = TRUE],
                     !.actionsLeft = Spend(s.actionsLeft),
                     !.lastPoliceSearches = marks]

\* A request is a tap on a node (a move) or on a cell (a search).
PursuerRequests ==
  [kind : {"move"}, at : MoveNodes] \cup [kind : {"search"}, at : SearchCells]

requestAccepts(q) ==
  IF q.kind = "move" THEN moveHeliPlayerAccepts(q.at)
  ELSE searchCellPlayerAccepts(q.at)

requestUpdater(s, q) ==
  IF q.kind = "move" THEN moveHeliUpdater(s, q.at) ELSE searchCellUpdater(s, q.at)

\* Two requests meet in one render during the first RenderTurns turns.
RenderTurns == 1

\* The requests q1 and q2 are handled in the same render, q1 first.
requestsInOneRender(q1, q2) ==
  /\ turn <= RenderTurns
  /\ requestAccepts(q1)
  /\ requestAccepts(q2)
  /\ LET s == requestUpdater(requestUpdater(PursuerFields, q1), q2)
     IN  /\ helicopters' = s.helicopters
         /\ heliActed' = s.heliActed
         /\ actionsLeft' = s.actionsLeft
         /\ searched' = s.searched
         /\ revealed' = s.revealed
         /\ lastPoliceSearches' = s.lastPoliceSearches
         /\ phase' = s.phase
         /\ winner' = s.winner
  /\ acts' = acts + 2
  /\ UNCHANGED << mode, role, viewer, turn, selectedHeli, criminalPos, visits,
                  criminalPath, policeAiRadio, policeAiThinking, criminalMoving,
                  handoff, policeSearchMode, aiRunning, aiTimers >>

RenderNext ==
  \/ Next
  \/ \E q1 \in PursuerRequests : \E q2 \in PursuerRequests :
        requestsInOneRender(q1, q2)

RenderSpec == Init /\ [][RenderNext]_vars

-----------------------------------------------------------------------------
(* The first turn of a match set up on given nodes *)

\* The evader's start cell and the nodes the units are placed on, in the
\* order of placement.
ScenarioCell == [r |-> 2, c |-> 2]
ScenarioNodes == << [r |-> 0, c |-> 0], [r |-> 3, c |-> 3], [r |-> 0, c |-> 3] >>

\* The node beside the start cell on which the first unit may be placed
\* instead.
ScenarioNearNode == [r |-> 1, c |-> 1]

\* The human pursuer acts at will during the first ScenarioTurns turns.
ScenarioTurns == 1

\* The nodes tapped during setup: the next node of ScenarioNodes, or for
\* the first unit the node beside the start cell.
ScenarioTaps ==
  IF Len(helicopters) >= 3 THEN {}
  ELSE {ScenarioNodes[Len(helicopters) + 1]}
         \cup (IF Len(helicopters) = 0 THEN {ScenarioNearNode} ELSE {})

ScenarioNext ==
  \/ chooseRoleSinglePolice(ScenarioCell)
  \/ \E n \in ScenarioTaps : toggleHeliSetup(n)
  \/ startFromSetup
  \/ turn <= ScenarioTurns /\ \E i \in 0..2 : selectHeli(i)
  \/ turn <= ScenarioTurns /\ \E to \in Nodes : moveHeliPlayer(to)
  \/ turn <= ScenarioTurns /\ setPoliceModeSearch
  \/ turn <= ScenarioTurns /\ setPoliceModeMove
  \/ turn <= ScenarioTurns /\ \E target \in Cells : searchCellPlayer(target)
  \/ autoEndPoliceTurn
  \/ criminalAiTimer

ScenarioSpec == Init /\ [][ScenarioNext]_vars

-----------------------------------------------------------------------------
(* The pursuer AI's first turn from the placements uniqueRandomNodes draws *)

\* The three units are drawn, in ascending row-major order, among the first
\* NumAiNodes nodes, and the human evader starts on one of the first
\* NumAiStartCells cells.
NumAiNodes == 5
NumAiStartCells == 2

AiNodeTriples ==
  { h \in [1..3 -> { n \in Nodes : NodeIndex(n) < NumAiNodes }] :
      NodeIndex(h[1]) < NodeIndex(h[2]) /\ NodeIndex(h[2]) < NodeIndex(h[3]) }

AiStartCells == { cl \in Cells : CellIndex(cl) < NumAiStartCells }

AiNext ==
  \/ \E helis \in AiNodeTriples : chooseRoleSingleCriminal(helis)
  \/ \E cl \in AiStartCells : criminalChooseStart(cl)
  \/ policeAiStepTimer
  \/ policeAiEndTimer

AiSpec == Init /\ [][AiNext]_vars

-----------------------------------------------------------------------------
(* The belief engine over the evidence a match can hold *)

\* The pursuer AI's turn opens on evidence drawn from bounded sets: the
\* human evader has walked up to MaxWalk moves from one of the first
\* NumWalkStarts cells, and any of the cells it has left are revealed.
\* From there the AI plays on and the evader moves as in Spec.
NumWalkStarts == 2
MaxWalk == 3

\* The self-avoiding walks that extend path by up to n moves.
RECURSIVE Walks(_, _)
Walks(path, n) ==
  {path} \cup
    (IF n = 0 THEN {}
     ELSE UNION { Walks(Append(path, cl), n - 1) :
                    cl \in Range(FreeNeighbors(path[Len(path)],
                                                { keyCell(path[i]) : i \in 1..Len(path) })) })

\* visits as criminalChooseStart and criminalMoveTo stamp it along path.
VisitsAlong(path) ==
  [k \in { keyCell(path[i]) : i \in 1..Len(path) } |->
     << CHOOSE i \in 1..Len(path) : keyCell(path[i]) = k >>]

HeatInit ==
  /\ mode = "SINGLE"
  /\ role = "CRIMINAL"
  /\ viewer = "CRIMINAL"
  /\ phase = "POLICE_AI_TURN"
  /\ criminalPath \in UNION { Walks(<< cl >>, MaxWalk) :
                                 cl \in { q \in Cells : CellIndex(q) < NumWalkStarts } }
  /\ turn = Len(criminalPath)
  /\ criminalPos = criminalPath[Len(criminalPath)]
  /\ visits = VisitsAlong(criminalPath)
  /\ revealed \in SUBSET { keyCell(criminalPath[i]) : i \in 1..(Len(criminalPath) - 1) }
  /\ searched = revealed
  /\ helicopters = << [r |-> 0, c |-> 0], [r |-> 0, c |-> 1], [r |-> 0, c |-> 2] >>
  /\ selectedHeli = NoHeli
  /\ actionsLeft = ACTIONS_PER_TURN
  /\ heliActed = NoActed
  /\ lastPoliceSearches = << >>
  /\ policeAiRadio = [turn |-> 1, lines |-> << >>]
  /\ policeAiThinking = TRUE
  /\ criminalMoving = FALSE
  /\ winner = "NONE"
  /\ handoff = [show |-> FALSE, to |-> "CRIMINAL"]
  /\ policeSearchMode = FALSE
  /\ aiRunning = TRUE
  /\ aiTimers = << [kind |-> "aiStep", arg |-> 0], [kind |-> "aiStep", arg |-> 1],
                   [kind |-> "aiStep", arg |-> 2] >>
  /\ acts = 0

HeatNext ==
  \/ policeAiStepTimer
  \/ policeAiEndTimer
  \/ \E cl \in EvaderTaps : criminalMoveTo(cl)

HeatSpec == HeatInit /\ [][HeatNext]_vars

-----------------------------------------------------------------------------
(* The earlier single-player engine (src/unnamed/part_000), first turn *)

\* The variant has no pass-and-play, no radio and no search marks: mode
\* stays "SINGLE" and policeAiRadio, lastPoliceSearches and handoff keep
\* their initial values.  Its chooseRole, toggleHeliSetup, startPoliceTurn,
\* selectHeli, criminalChooseStart and end-of-turn timer are those of
\* chooseRoleSingle, toggleHeliSetup, startFromSetup, selectHeli,
\* criminalChooseStart and policeAiEndTimer in single-player mode.  Its
\* moveHeliPlayer, its onNodeTap and the step of its runPoliceAiTurn differ
\* and are given here.

\* The nodes the player taps: the first NumEarlierNodes in row-major order.
NumEarlierNodes == 6

EarlierTaps == { n \in Nodes : NodeIndex(n) < NumEarlierNodes }

\* bestMoveNodeToward(node, target): the first neighbour of least distance.
bestMoveNodeTowardEarlier(node, target) ==
  LET neigh == neighborsNode(node)
      bestD == SetMin({ NodeDistance(neigh[i], target) : i \in 1..Len(neigh) })
      first == SetMin({ i \in 1..Len(neigh) : NodeDistance(neigh[i], target) = bestD })
  IN  IF Len(neigh) = 0 THEN node ELSE neigh[first]

moveHeliPlayerEarlierAccepts(to) ==
  /\ phase = "POLICE_TURN"
  /\ selectedHeli # NoHeli
  /\ ~(actionsLeft <= 0)
  /\ ~criminalMoving
  /\ ~At(heliActed, selectedHeli)
  /\ \E i \in 1..Len(neighborsNode(At(helicopters, selectedHeli))) :
        keyNode(neighborsNode(At(helicopters, selectedHeli))[i]) = keyNode(to)

moveHeliPlayerEarlier(to) ==
  IF moveHeliPlayerEarlierAccepts(to)
  THEN /\ helicopters' = [helicopters EXCEPT ![selectedHeli + 1] = to]
       /\ heliActed' = [heliActed EXCEPT ![selectedHeli + 1] = TRUE]
       /\ actionsLeft' = Spend(actionsLeft)
       /\ acts' = acts + 1
       /\ UNCHANGED << mode, role, viewer, phase, turn, selectedHeli, criminalPos,
                       visits, revealed, searched, criminalPath,
                       lastPoliceSearches, policeAiRadio, policeAiThinking,
                       criminalMoving, winner, handoff, policeSearchMode,
                       aiRunning, aiTimers >>
  ELSE UNCHANGED vars

\* onNodeTap: a tap on a unit's node selects the unit, a tap on another
\* node asks for a move of the selected unit.
onNodeTapEarlier(n) ==
  IF phase = "POLICE_SETUP" THEN toggleHeliSetup(n)
  ELSE IF phase = "POLICE_TURN" /\ ~criminalMoving
       THEN IF HeliIndexAt(n) >= 0 THEN selectHeli(HeliIndexAt(n))
            ELSE IF selectedHeli = NoHeli THEN UNCHANGED vars
            ELSE moveHeliPlayerEarlier(n)
       ELSE UNCHANGED vars

\* The state updater of one step of the variant's runPoliceAiTurn.
\* heliIndex, doMove and target are its random draws; searchTarget is the
\* outcome of bestSearchTarget.
policeAiStepEarlier(heliIndex, doMove, target, searchTarget) ==
  IF doMove
  THEN /\ helicopters' =
            [helicopters EXCEPT
               ![heliIndex + 1] = bestMoveNodeTowardEarlier(At(helicopters, heliIndex), target)]
       /\ heliActed' = [heliActed EXCEPT ![heliIndex + 1] = TRUE]
       /\ selectedHeli' = heliIndex
       /\ actionsLeft' = Spend(actionsLeft)
       /\ acts' = acts + 1
       /\ UNCHANGED << mode, role, viewer, phase, turn, criminalPos, visits,
                       revealed, searched, criminalPath, lastPoliceSearches,
                       policeAiRadio, policeAiThinking, criminalMoving, winner,
                       handoff, policeSearchMode, aiRunning >>
  ELSE /\ searched' = searched \cup {keyCell(searchTarget)}
       /\ selectedHeli' = heliIndex
       /\ acts' = acts + 1
       /\ IF Arrests(searchTarget, criminalPos)
          THEN /\ aiRunning' = FALSE
               /\ phase' = "END"
               /\ winner' = "POLICE"
               /\ actionsLeft' = 0
               /\ policeAiThinking' = FALSE
               /\ UNCHANGED << revealed, heliActed >>
          ELSE /\ revealed' = RevealAfter(revealed, visits, searchTarget)
               /\ heliActed' = [heliActed EXCEPT ![heliIndex + 1] = TRUE]
               /\ actionsLeft' = Spend(actionsLeft)
               /\ UNCHANGED << aiRunning, phase, winner, policeAiThinking >>
       /\ UNCHANGED << mode, role, viewer, turn, helicopters, criminalPos, visits,
                       criminalPath, lastPoliceSearches, policeAiRadio,
                       criminalMoving, handoff, policeSearchMode >>

\* One of the three step timers of the variant fires.
policeAiStepTimerEarlier ==
  /\ aiTimers # << >>
  /\ Head(aiTimers).kind = "aiStep"
  /\ aiTimers' = IF aiRunning /\ Head(aiTimers).arg = ACTIONS_PER_TURN - 1
                 THEN Append(Tail(aiTimers), [kind |-> "aiEnd", arg |-> 0])
                 ELSE Tail(aiTimers)
  /\ IF aiRunning /\ policeAiStepApplies
     THEN LET heat == buildHeat(turn, visits, revealed)
          IN  \E heliIndex \in { idx \in 0..2 : ~At(heliActed, idx) } :
                \E doMove \in BOOLEAN :
                  IF doMove
                  THEN \E target \in AiDraw(bestCellByHeat(heat)) :
                         policeAiStepEarlier(heliIndex, doMove, target, NoCell)
                  ELSE \E searchTarget \in
                            AiDraw(bestSearchTarget(At(helicopters, heliIndex),
                                                    heat, searched)) :
                         policeAiStepEarlier(heliIndex, doMove, NoCell, searchTarget)
     ELSE UNCHANGED << mode, role, viewer, phase, turn, helicopters,
                       selectedHeli, actionsLeft, heliActed, criminalPos, visits,
                       revealed, searched, criminalPath, lastPoliceSearches,
                       policeAiRadio, policeAiThinking, criminalMoving, winner,
                       handoff, policeSearchMode, aiRunning, acts >>

EarlierNext ==
  \/ \E c0 \in StartCells : chooseRoleSinglePolice(c0)
  \/ \E helis \in AiNodeTriples : chooseRoleSingleCriminal(helis)
  \/ \E n \in EarlierTaps : onNodeTapEarlier(n)
  \/ startFromSetup
  \/ \E cl \in AiStartCells : criminalChooseStart(cl)
  \/ policeAiStepTimerEarlier
  \/ policeAiEndTimer

EarlierSpec == Init /\ [][EarlierNext]_vars

-----------------------------------------------------------------------------
(* Properties *)

\* A step that records a search: it appends a mark to lastPoliceSearches.
SearchStep ==
  lastPoliceSearches' # lastPoliceSearches /\ lastPoliceSearches' # << >>

\* The mark a search step has recorded.
NewMark == lastPoliceSearches'[Len(lastPoliceSearches')]

PursuerPhases == {"POLICE_TURN", "POLICE_AI_TURN"}

\* A step that ends the pursuer's turn without an arrest and without
\* abandoning the match.
PursuerTurnEnds ==
  /\ phase \in PursuerPhases
  /\ phase' \notin {phase, "ROLE_SELECT"}
  /\ winner' # "POLICE"

\* C1: a search that takes effect, the human pursuer's or the AI's, ends
\* the match for the pursuer (winner POLICE, phase END) exactly when its
\* target is the cell the evader stands on at that moment; the search
\* leaves the turn counter alone.
C1_ArrestCorrectness ==
  [][SearchStep =>
       /\ (winner' = "POLICE" /\ phase' = "END")
            <=> (NewMark.target.r = criminalPos.r /\ NewMark.target.c = criminalPos.c)
       /\ turn' = turn]_vars

\* An arrest after the first turn, in a match where an earlier search has
\* already revealed a trace.
C1_Witness ==
  /\ winner = "POLICE"
  /\ phase = "END"
  /\ turn > 1
  /\ revealed # {}
  /\ lastPoliceSearches # << >>
  /\ lastPoliceSearches[Len(lastPoliceSearches)].target = criminalPos

\* C2: when the pursuer's turn ends without an arrest while turn >= MAX_TURN,
\* the match ends with winner CRIMINAL and phase END, for the human
\* pursuer's end of turn and for the AI pursuer's end-of-turn timer alike.
C2_Survival ==
  [][(PursuerTurnEnds /\ turn >= MAX_TURN) =>
       (phase' = "END" /\ winner' = "CRIMINAL" /\ turn' = turn)]_vars

\* The evader has survived its ten moves.
C2_Witness ==
  /\ phase = "END"
  /\ winner = "CRIMINAL"
  /\ turn = MAX_TURN
  /\ Len(criminalPath) = MAX_TURN

\* The conditions under which a move of the selected unit to node `to` is
\* legal, read off the state.
MoveLegal(to) ==
  /\ Abs(At(helicopters, selectedHeli).r - to.r)
       + Abs(At(helicopters, selectedHeli).c - to.c) = 1
  /\ \A j \in 0..2 : j # selectedHeli => At(helicopters, j) # to
  /\ ~At(heliActed, selectedHeli)
  /\ actionsLeft > 0

\* The request moveHeliPlayer(to) changes the state.
MoveTakesEffect(to) == moveHeliPlayer(to) /\ vars' # vars

\* A pursuer turn with a selected unit.
PursuerToMove == phase = "POLICE_TURN" /\ selectedHeli # NoHeli

\* In pass-and-play the device is in the pursuer's hands.
PursuerHoldsDevice == ~(mode = "PASS_PLAY" /\ viewer # "POLICE")

\* What a move that took effect has changed: the unit's node, its acted
\* flag and the budget (and the count of actions kept beside the state).
MoveFrame(to) ==
  /\ helicopters' = [helicopters EXCEPT ![selectedHeli + 1] = to]
  /\ heliActed' = [heliActed EXCEPT ![selectedHeli + 1] = TRUE]
  /\ actionsLeft' = actionsLeft - 1
  /\ UNCHANGED << mode, role, viewer, phase, turn, selectedHeli, criminalPos,
                  visits, revealed, searched, criminalPath, lastPoliceSearches,
                  policeAiRadio, policeAiThinking, criminalMoving, winner,
                  handoff, policeSearchMode, aiRunning, aiTimers >>

\* C3 as stated: during a pursuer turn, moveHeliPlayer(to) changes the
\* state exactly when to is adjacent to the selected unit's node, no other
\* unit holds it, the unit has not acted and actionsLeft > 0.
C3_AsStated ==
  PursuerToMove =>
    \A to \in Nodes : MoveLegal(to) <=> ENABLED MoveTakesEffect(to)

\* C3: during a pursuer turn, moveHeliPlayer(to) changes the state exactly
\* when the four conditions hold and, in pass-and-play, the pursuer holds
\* the device; a move that takes effect changes only the unit's node, its
\* acted flag and the budget.
C3_MoveLegality ==
  /\ [](PursuerToMove =>
          \A to \in Nodes :
            (MoveLegal(to) /\ PursuerHoldsDevice) <=> ENABLED MoveTakesEffect(to))
  /\ [][\A to \in Nodes : MoveTakesEffect(to) => MoveFrame(to)]_vars

\* A unit has moved next to another unit: the node beside it is refused.
C3_Witness ==
  /\ PursuerToMove
  /\ PursuerHoldsDevice
  /\ actionsLeft = ACTIONS_PER_TURN - 1
  /\ searched = {}
  /\ \E i \in 0..2 : At(heliActed, i)
  /\ \E to \in Nodes : ~MoveLegal(to) /\ \E j \in 0..2 : At(helicopters, j) = to

\* The four cells around node n.
Catchment(n) ==
  { [r |-> n.r, c |-> n.c], [r |-> n.r, c |-> n.c + 1],
    [r |-> n.r + 1, c |-> n.c], [r |-> n.r + 1, c |-> n.c + 1] }

\* The request searchCellPlayer(target) changes the state.
SearchTakesEffect(target) == searchCellPlayer(target) /\ vars' # vars

\* The conditions under which a search of target by the selected unit is
\* legal, read off the state.
SearchLegal(target) ==
  /\ selectedHeli # NoHeli
  /\ target \in Catchment(At(helicopters, selectedHeli))
  /\ ~At(heliActed, selectedHeli)
  /\ actionsLeft > 0

\* C4: every search that takes effect, the human pursuer's or the AI's,
\* targets one of the four cells around the acting unit's node, is made by
\* a unit that has not acted this turn and happens with actionsLeft > 0; a
\* search request of the human pursuer that violates one of these is
\* rejected.
C4_SearchLegality ==
  /\ [][SearchStep =>
          /\ NewMark.target \in Catchment(At(helicopters, NewMark.heliIndex))
          /\ ~At(heliActed, NewMark.heliIndex)
          /\ actionsLeft > 0]_vars
  /\ [](\A target \in Cells : ENABLED SearchTakesEffect(target) => SearchLegal(target))

\* The AI pursuer has searched with each of its three units this turn.
C4_Witness ==
  /\ phase = "POLICE_AI_TURN"
  /\ Len(lastPoliceSearches) = 3
  /\ \A i \in 1..3 : lastPoliceSearches[i].turn = turn
  /\ heliActed = << TRUE, TRUE, TRUE >>

\* A step in which a pursuer action takes effect: a search is recorded or
\* a unit changes its node.
PursuerActionStep ==
  /\ phase \in PursuerPhases
  /\ SearchStep \/ (helicopters' # helicopters /\ phase' # "ROLE_SELECT")

EvaderMoveStep ==
  Len(criminalPath) >= 1 /\ Len(criminalPath') = Len(criminalPath) + 1

\* C6: every evader move that takes effect, the human's or the AI's, goes
\* to a cell orthogonally adjacent to the evader's cell, inside the grid,
\* that is not a key of visits at the time of the move.
C6_NoRevisit ==
  [][EvaderMoveStep =>
       /\ Abs(criminalPos'.r - criminalPos.r) + Abs(criminalPos'.c - criminalPos.c) = 1
       /\ criminalPos'.r \in 0..(GRID - 1)
       /\ criminalPos'.c \in 0..(GRID - 1)
       /\ << criminalPos'.r, criminalPos'.c >> \notin DOMAIN visits]_vars

\* The AI evader has made its tenth move.
C6_Witness ==
  /\ role = "POLICE"
  /\ Len(criminalPath) = MAX_TURN
  /\ Cardinality(DOMAIN visits) = MAX_TURN

\* C9: an evader move that takes effect increments turn by exactly 1, sets
\* criminalPos to the target, stamps the target in visits with the new
\* turn and leaves the other stamps alone, resets actionsLeft to 3, clears
\* the three heliActed flags and passes the phase to the pursuer:
\* POLICE_AI_TURN when the pursuer is the AI, POLICE_TURN otherwise.
C9_EvaderMoveEffect ==
  [][EvaderMoveStep =>
       /\ turn' = turn + 1
       /\ criminalPos' = criminalPath'[Len(criminalPath')]
       /\ DOMAIN visits' = DOMAIN visits \cup {<< criminalPos'.r, criminalPos'.c >>}
       /\ visits'[<< criminalPos'.r, criminalPos'.c >>] = << turn + 1 >>
       /\ \A k \in DOMAIN visits : visits'[k] = visits[k]
       /\ actionsLeft' = ACTIONS_PER_TURN
       /\ heliActed' = << FALSE, FALSE, FALSE >>
       /\ phase' = IF mode = "SINGLE" /\ role = "CRIMINAL"
                   THEN "POLICE_AI_TURN" ELSE "POLICE_TURN"]_vars

\* After three searches on turn 1 that missed, the evader has made its
\* move and the pursuer starts turn 2 with the full budget.
C9_Witness ==
  /\ turn = 2
  /\ phase = "POLICE_TURN"
  /\ Cardinality(searched) = 3
  /\ winner = "NONE"
  /\ actionsLeft = ACTIONS_PER_TURN
  /\ heliActed = << FALSE, FALSE, FALSE >>
  /\ acts = 0

\* The evader has no legal move: no cell beside it, inside the grid, is
\* unvisited.
EvaderStuck ==
  /\ criminalPos # NoCell
  /\ \A cl \in Cells :
       Abs(cl.r - criminalPos.r) + Abs(cl.c - criminalPos.c) = 1
         => << cl.r, cl.c >> \in DOMAIN visits

\* A step of the program, with any cell tapped by the evader, that ends the
\* match for the pursuer.
AdjudgedToPursuer ==
  /\ Next \/ \E cl \in Cells : criminalMoveTo(cl)
  /\ phase' = "END"
  /\ winner' = "POLICE"

\* C7: when the evader's turn has begun and the evader has no legal move,
\* the match is adjudicated to the pursuer: the program has a step that
\* sets winner POLICE and phase END.
C7_StuckAdjudication ==
  (phase \in {"CRIMINAL_MOVE", "CRIMINAL_AI_MOVING"} /\ EvaderStuck)
    => ENABLED AdjudgedToPursuer

\* In pass-and-play the device is in the evader's hands.
EvaderHoldsDevice == ~(mode = "PASS_PLAY" /\ viewer # "CRIMINAL")

\* The requests the rules allow, read off the state.
MoveAllowed(to) ==
  phase = "POLICE_TURN" /\ selectedHeli # NoHeli /\ PursuerHoldsDevice /\ MoveLegal(to)

SearchAllowed(target) ==
  phase = "POLICE_TURN" /\ PursuerHoldsDevice /\ SearchLegal(target)

EvaderMoveAllowed(cl) ==
  /\ phase = "CRIMINAL_MOVE"
  /\ EvaderHoldsDevice
  /\ criminalPos # NoCell
  /\ Abs(cl.r - criminalPos.r) + Abs(cl.c - criminalPos.c) = 1
  /\ << cl.r, cl.c >> \notin DOMAIN visits

\* C10: a request that violates a rule (a move to a node that is not
\* adjacent or is occupied, a search outside the four cells around the
\* unit, an action of a unit that has acted or with no budget left, a
\* pursuer or evader operation in the wrong phase or, in pass-and-play, by
\* the wrong viewer) leaves every variable of the state unchanged.
C10_SilentRejection ==
  /\ \A to \in Nodes : ENABLED MoveTakesEffect(to) => MoveAllowed(to)
  /\ \A target \in Cells : ENABLED SearchTakesEffect(target) => SearchAllowed(target)
  /\ \A cl \in Cells :
       ENABLED (criminalMoveTo(cl) /\ vars' # vars) => EvaderMoveAllowed(cl)
  /\ \A cl \in Cells :
       ENABLED (criminalChooseStart(cl) /\ vars' # vars)
         => (phase = "CRIMINAL_HIDE" /\ EvaderHoldsDevice)
  /\ \A i \in 0..2 :
       ENABLED (selectHeli(i) /\ vars' # vars)
         => (phase = "POLICE_TURN" /\ PursuerHoldsDevice)
  /\ ENABLED (setPoliceModeSearch /\ vars' # vars)
       => (phase = "POLICE_TURN" /\ PursuerHoldsDevice)
  /\ \A n \in Nodes :
       ENABLED (toggleHeliSetup(n) /\ vars' # vars)
         => (phase = "POLICE_SETUP" /\ PursuerHoldsDevice)
  /\ ENABLED (startFromSetup /\ vars' # vars) => phase = "POLICE_SETUP"

\* In pass-and-play the evader's move is awaited, a cell beside the evader
\* is free, and the device is still in the pursuer's hands.
C10_Witness ==
  /\ mode = "PASS_PLAY"
  /\ phase = "CRIMINAL_MOVE"
  /\ viewer = "POLICE"
  /\ turn > 1
  /\ ~EvaderStuck

\* The cells the evader may move to: beside it, inside the grid, unvisited.
RawCandidates(pos, visited) ==
  { cl \in Cells : /\ Abs(cl.r - pos.r) + Abs(cl.c - pos.c) = 1
                   /\ << cl.r, cl.c >> \notin visited }

\* A self-avoiding path of n moves starts at pos and avoids visited.
RECURSIVE PathExists(_, _, _)
PathExists(pos, n, visited) ==
  \/ n <= 0
  \/ \E cl \in RawCandidates(pos, visited) :
       PathExists(cl, n - 1, visited \cup {<< cl.r, cl.c >>})

\* C8: for the evader's cell, visit history and turn (1..10) of every
\* state, criminalAiNextMoveNoStuck answers stuck exactly when no cell
\* beside the evader, inside the grid, is unvisited; it answers a move
\* whenever a self-avoiding path of the remaining MAX_TURN - turn moves
\* exists; and a move it answers is one of the raw candidates, also when
\* no candidate is safe.
C8_PlannerStuckCondition ==
  (criminalPos # NoCell /\ turn \in 1..(MAX_TURN - 1)) =>
    LET mv == criminalAiNextMoveNoStuck(criminalPos, visits, turn)
        cands == RawCandidates(criminalPos, DOMAIN visits)
    IN  /\ mv.stuck <=> cands = {}
        /\ ~mv.stuck => mv.next \in cands
        /\ PathExists(criminalPos, MAX_TURN - turn, DOMAIN visits) => ~mv.stuck

\* The planner has just moved the evader although no path of the remaining
\* length existed: no candidate was safe and it fell back on the raw ones.
C8_Witness ==
  /\ phase = "POLICE_TURN"
  /\ turn = PlannerFreeTurns + 2
  /\ turn < MAX_TURN
  /\ ~PathExists(criminalPos, MAX_TURN - turn, DOMAIN visits)

\* C11: when two move or search requests for the same unit are submitted
\* in one pursuer turn, also when both are evaluated against the same
\* state, at most one takes effect: no step of a pursuer turn lowers
\* actionsLeft by more than 1, and actionsLeft never falls below 0.
C11_DuplicateSubmission ==
  /\ [](actionsLeft >= 0)
  /\ [][phase = "POLICE_TURN" => actionsLeft' >= actionsLeft - 1]_vars

\* The match has not begun: the title screen, the placement of the units
\* or the choice of the evader's start.
MatchNotBegun == phase \in {"ROLE_SELECT", "POLICE_SETUP", "CRIMINAL_HIDE"}

\* The fields of GameState and policeSearchMode: the state without the
\* timer bookkeeping.
gameState ==
  << mode, role, viewer, phase, turn, helicopters, selectedHeli, actionsLeft,
     heliActed, criminalPos, visits, revealed, searched, criminalPath,
     lastPoliceSearches, policeAiRadio, policeAiThinking, criminalMoving,
     winner, handoff, policeSearchMode >>

\* A delayed callback fires and changes the game state.
CallbackChangesState ==
  /\ \/ criminalAiTimer
     \/ policeAiStepTimer
     \/ policeAiEndTimer
     \/ autoEndPoliceTurn
  /\ gameState' # gameState

\* C12: reset and the choice of a new mode or role lead to a match that has
\* not begun; there no callback scheduled earlier is pending (the evader
\* AI's move, a pursuer AI step, the pursuer AI's end of turn, the
\* zero-delay end of turn), the AI run flag is down, and no callback can
\* fire that changes the game state.
C12_ResetInvalidatesCallbacks ==
  MatchNotBegun =>
    /\ aiTimers = << >>
    /\ ~aiRunning
    /\ ~ENABLED CallbackChangesState

\* In a turn after the first the pursuer AI's three steps are pending, and
\* reset, performed now, leaves none of them.
C12_Witness ==
  /\ phase = "POLICE_AI_TURN"
  /\ turn > 1
  /\ Len(aiTimers) = 3
  /\ aiRunning
  /\ ENABLED (reset /\ phase' = "ROLE_SELECT" /\ aiTimers' = << >>)

\* Any operation or callback of the program other than reset, with any
\* node, cell or unit index as its input (the buttons of the title screen
\* are shown in phase ROLE_SELECT only).
OperationOtherThanReset ==
  \/ acceptHandoff
  \/ \E n \in Nodes : toggleHeliSetup(n) \/ moveHeliPlayer(n)
  \/ clearSetup
  \/ startFromSetup
  \/ \E i \in 0..2 : selectHeli(i)
  \/ setPoliceModeSearch
  \/ setPoliceModeMove
  \/ \E cl \in Cells :
        searchCellPlayer(cl) \/ criminalChooseStart(cl) \/ criminalMoveTo(cl)
  \/ endPoliceTurn
  \/ criminalAiTimer
  \/ policeAiStepTimer
  \/ policeAiEndTimer

\* C13: winner is non-null exactly when phase is END, so winner is set
\* exactly at the transition into END; and once the match has ended no
\* operation or timer callback other than reset changes winner or phase.
C13_WinnerImmutability ==
  /\ winner \in {"NONE", "POLICE", "CRIMINAL"}
  /\ (winner # "NONE") <=> (phase = "END")
  /\ phase = "END" =>
       ~ENABLED (OperationOtherThanReset /\ (winner' # winner \/ phase' # phase))

\* The pursuer AI's last step has arrested the evader after the first
\* turn, and its end-of-turn callback is still to fire.
C13_Witness ==
  /\ phase = "END"
  /\ winner = "POLICE"
  /\ turn > 1
  /\ aiTimers # << >>
  /\ Head(aiTimers).kind = "aiEnd"

\* C14: in every reachable state 1 <= turn <= MAX_TURN; within a match
\* (reset starts the count again at 1) turn changes only in a step in which
\* an evader move takes effect, and then by exactly 1; and once turn is
\* MAX_TURN no request of criminalMoveTo, for any cell, is accepted.
C14_TurnCounter ==
  /\ [](turn \in 1..MAX_TURN)
  /\ [][turn' # turn =>
          (phase' = "ROLE_SELECT" \/ (EvaderMoveStep /\ turn' = turn + 1))]_vars
  /\ [](turn = MAX_TURN =>
          \A cl \in Cells : ~ENABLED (criminalMoveTo(cl) /\ vars' # vars))

\* The human evader has made its tenth move and the pursuer AI's last turn
\* has begun.
C14_Witness ==
  /\ turn = MAX_TURN
  /\ phase = "POLICE_AI_TURN"
  /\ role = "CRIMINAL"
  /\ Len(criminalPath) = MAX_TURN
  /\ winner = "NONE"

\* There are exactly three units, each on a node of the lattice, no two on
\* the same node.
ThreeUnitsApart ==
  /\ Len(helicopters) = 3
  /\ \A i \in 1..3 : helicopters[i].r \in 0..(NODE - 1) /\ helicopters[i].c \in 0..(NODE - 1)
  /\ \A i \in 1..3 : \A j \in 1..3 : i # j => helicopters[i] # helicopters[j]

\* C15: no operation takes the match from setup into play unless exactly
\* three units are placed; and in every state after setup (the phases of
\* the pursuer and of the evader and END, whoever plays the pursuer) there
\* are exactly three units, each on a node of the 4x4 lattice, no two on
\* the same node.
C15_UnitSet ==
  /\ phase = "POLICE_SETUP" =>
       (ENABLED (OperationOtherThanReset /\ phase' # "POLICE_SETUP")
          => Len(helicopters) = 3)
  /\ phase \notin {"ROLE_SELECT", "POLICE_SETUP"} => ThreeUnitsApart

\* The match against the pursuer AI has ended after a unit of the AI moved
\* off the nodes the units were drawn on.
C15_Witness ==
  /\ role = "CRIMINAL"
  /\ phase = "END"
  /\ ThreeUnitsApart
  /\ \E i \in 1..3 : helicopters[i] \notin SetupNodes

\* On turn 1 the units are where a placement on ScenarioNodes leaves them:
\* a unit that has not acted stands on its node, a unit that has acted
\* stands on it or beside it.
FromScenarioPlacement ==
  /\ Len(helicopters) = 3
  /\ \A i \in 1..3 :
       Abs(helicopters[i].r - ScenarioNodes[i].r)
         + Abs(helicopters[i].c - ScenarioNodes[i].c)
           <= (IF heliActed[i] THEN 1 ELSE 0)

\* The human pursuer's first turn with the evader on cell (2,2).
ScenarioFirstTurn ==
  turn = 1 /\ phase = "POLICE_TURN" /\ criminalPos = ScenarioCell

\* C16 as stated: in a fresh match with the units placed on nodes (0,0),
\* (3,3), (0,3) and the evader on cell (2,2), the pursuer's search of cell
\* (2,2) on turn 1 is accepted and yields winner POLICE with turn still 1.
C16_AsStated ==
  (/\ ScenarioFirstTurn
   /\ helicopters = ScenarioNodes
   /\ heliActed = NoActed
   /\ actionsLeft = ACTIONS_PER_TURN
   /\ selectedHeli # NoHeli
   /\ policeSearchMode)
    => ENABLED (/\ searchCellPlayer(ScenarioCell)
                /\ winner' = "POLICE"
                /\ turn' = 1)

\* C16: in a fresh match with the evader on cell (2,2), on turn 1: with the
\* units placed on nodes (0,0), (3,3), (0,3) every search of cell (2,2) is
\* rejected, whatever the units have done in the turn; with the selected
\* unit standing on node (1,1), not having acted, the search of cell (2,2)
\* is accepted and yields winner POLICE, phase END and turn still 1.
C16_ScenarioA ==
  ScenarioFirstTurn =>
    /\ FromScenarioPlacement => ~ENABLED SearchTakesEffect(ScenarioCell)
    /\ (/\ selectedHeli # NoHeli
        /\ At(helicopters, selectedHeli) = ScenarioNearNode
        /\ ~At(heliActed, selectedHeli)
        /\ actionsLeft > 0
        /\ policeSearchMode)
         => /\ ENABLED SearchTakesEffect(ScenarioCell)
            /\ ~ENABLED (/\ searchCellPlayer(ScenarioCell)
                         /\ ~(winner' = "POLICE" /\ phase' = "END" /\ turn' = 1))

\* The unit placed on node (1,1) has searched cell (2,2) on turn 1 and
\* arrested the evader.
C16_Witness ==
  /\ winner = "POLICE"
  /\ phase = "END"
  /\ turn = 1
  /\ criminalPos = ScenarioCell
  /\ helicopters = [ScenarioNodes EXCEPT ![1] = ScenarioNearNode]
  /\ lastPoliceSearches = << [turn |-> 1, target |-> ScenarioCell, heliIndex |-> 0] >>

\* A step timer of the pursuer AI fires and runs its updater.
AiStepRuns ==
  /\ phase = "POLICE_AI_TURN"
  /\ aiTimers # << >>
  /\ Head(aiTimers).kind = "aiStep"
  /\ aiRunning
  /\ aiTimers' # aiTimers
  /\ phase' # "ROLE_SELECT"

\* What a step of the pursuer AI must have done: arrested the evader, or
\* spent exactly one action on a search or on a move of one unit to another
\* node.
AiStepActs ==
  \/ winner' = "POLICE" /\ phase' = "END" /\ SearchStep
  \/ /\ actionsLeft' = actionsLeft - 1
     /\ winner' = winner
     /\ phase' = phase
     /\ \/ SearchStep /\ helicopters' = helicopters
        \/ /\ ~SearchStep
           /\ \E i \in 1..3 :
                /\ helicopters'[i] # helicopters[i]
                /\ \A j \in 1..3 : j # i => helicopters'[j] = helicopters[j]

\* C17: every step of the pursuer AI that runs in phase POLICE_AI_TURN with
\* actionsLeft > 0 and a unit that has not acted either ends the match by
\* an arrest or lowers actionsLeft by exactly 1, by a search or by moving a
\* unit to a different node; it never leaves the state unchanged.
C17_AiNeverPasses ==
  [][(AiStepRuns /\ actionsLeft > 0 /\ \E i \in 0..2 : ~At(heliActed, i))
       => AiStepActs]_vars

\* The pursuer AI has spent its three actions, one of them on a move and
\* one on a search.
C17_Witness ==
  /\ phase = "POLICE_AI_TURN"
  /\ actionsLeft = 0
  /\ heliActed = << TRUE, TRUE, TRUE >>
  /\ \E i \in 1..Len(policeAiRadio.lines) : policeAiRadio.lines[i].kind = "move"
  /\ \E i \in 1..Len(policeAiRadio.lines) : policeAiRadio.lines[i].kind = "search"

\* The number of units that have acted.
ActedCount == Cardinality({ i \in 0..2 : At(heliActed, i) })

\* The unit of least index that has not acted.
LowestUnacted == CHOOSE i \in 0..2 : ~At(heliActed, i) /\ \A j \in 0..(i - 1) : At(heliActed, j)

\* C18: every step of the pursuer AI that acts does so with the unit of
\* least index whose acted flag is false: it selects that unit, marks its
\* search with that unit's index, and unless it arrests sets that unit's
\* flag and no other; so during the AI's turn the units that have acted
\* are the first ones in the order 0, 1, 2, one per action spent.
C18_AiUnitOrder ==
  /\ [](phase = "POLICE_AI_TURN" =>
          /\ \A i \in 0..2 : At(heliActed, i) <=> i < ActedCount
          /\ actionsLeft = ACTIONS_PER_TURN - ActedCount)
  /\ [][(AiStepRuns /\ gameState' # gameState) =>
          /\ selectedHeli' = LowestUnacted
          /\ SearchStep => NewMark.heliIndex = LowestUnacted
          /\ winner' # "POLICE" =>
               heliActed' = [heliActed EXCEPT ![LowestUnacted + 1] = TRUE]]_vars

\* In a turn after the first the pursuer AI has acted with units 0 and 1
\* and unit 2 is still to act.
C18_Witness ==
  /\ phase = "POLICE_AI_TURN"
  /\ turn > 1
  /\ heliActed = << TRUE, TRUE, FALSE >>
  /\ selectedHeli = 1
  /\ Len(aiTimers) = 1

\* Node n is beside node m on the lattice.
BesideNode(n, m) == Abs(n.r - m.r) + Abs(n.c - m.c) = 1

\* Every node beside the node of unit i (index from 0) is held by another
\* unit.
UnitBlocked(i) ==
  \A n \in Nodes :
    BesideNode(n, At(helicopters, i)) => \E j \in 0..2 : j # i /\ At(helicopters, j) = n

\* C19: when a step of the pursuer AI moves a unit, the destination is a
\* node of the lattice beside the unit's node (hence different from it)
\* that no other unit holds; and when every node beside the unit whose
\* turn it is to act is held, the step moves no unit and records a search.
C19_AiUnitMovement ==
  [][AiStepRuns =>
       /\ \A i \in 1..3 :
            helicopters'[i] # helicopters[i] =>
              /\ helicopters'[i] \in Nodes
              /\ BesideNode(helicopters'[i], helicopters[i])
              /\ \A j \in 1..3 : j # i => helicopters[j] # helicopters'[i]
       /\ (gameState' # gameState /\ UnitBlocked(LowestUnacted)) =>
            (helicopters' = helicopters /\ SearchStep)]_vars

\* Unit 0, shut in on the corner node (0,0) by the units on (0,1) and
\* (1,0), has searched, and unit 1 has then moved off (0,1).
C19_Witness ==
  /\ phase = "POLICE_AI_TURN"
  /\ helicopters[1] = [r |-> 0, c |-> 0]
  /\ helicopters[2] \in {[r |-> 0, c |-> 2], [r |-> 1, c |-> 1]}
  /\ helicopters[3] = [r |-> 1, c |-> 0]
  /\ heliActed = << TRUE, TRUE, FALSE >>
  /\ Len(lastPoliceSearches) = 1
  /\ lastPoliceSearches[1].heliIndex = 0
  /\ Len(policeAiRadio.lines) = 2
  /\ policeAiRadio.lines[2].kind = "move"

\* A step in which the pursuer AI emits a radio line.
RadioLineStep ==
  policeAiRadio' # policeAiRadio /\ policeAiRadio'.lines # << >>

\* The line a radio step has emitted.
NewLine == policeAiRadio'.lines[Len(policeAiRadio'.lines)]

\* The quadrants that hold a cell of greatest heat.
HottestQuadrants(heat) ==
  LET top == SetMax({ heat[q] : q \in Cells })
  IN  { quadrantOfCell(cl) : cl \in { p \in Cells : heat[p] = top } }

\* C20: every radio line the pursuer AI emits while turn = MAX_TURN names
\* the quadrant of a cell whose heat, computed from the traces revealed at
\* that moment, is the greatest on the board; the confidence it states
\* plays no part.
C20_FinalTurnChatter ==
  [][(RadioLineStep /\ turn = MAX_TURN) =>
       NewLine.focus \in HottestQuadrants(buildHeat(turn, visits, revealed))]_vars

\* On the final turn the pursuer AI has emitted a line while traces of the
\* evader are revealed.
C20_Witness ==
  /\ turn = MAX_TURN
  /\ policeAiRadio.turn = MAX_TURN
  /\ policeAiRadio.lines # << >>
  /\ revealed # {}
  /\ HottestQuadrants(buildHeat(turn, visits, revealed)) # {"NW", "NE", "SW", "SE"}

\* The evidence a match can hold on a turn: up to n traces, each a cell with
\* the turn of the evader's first visit, such that the evader can have
\* walked from each to the next (one cell per turn).
Stamps == [cell : Cells, t : 1..(MAX_TURN - 1)]

WalkFits(a, b) ==
  /\ a.t < b.t
  /\ manhattanCell(a.cell, b.cell) <= b.t - a.t
  /\ (b.t - a.t - manhattanCell(a.cell, b.cell)) % 2 = 0

RECURSIVE TraceSets(_)
TraceSets(n) ==
  IF n = 0 THEN {{}}
  ELSE LET fewer == TraceSets(n - 1)
       IN  fewer \cup
           { T \cup {a} : << T, a >> \in
               { p \in fewer \X Stamps : \A b \in p[1] : WalkFits(b, p[2]) } }

\* The evidence of the bounded check holds at most MaxTraces traces, none
\* of them older than MaxAge turns.
MaxTraces == 2
MaxAge == 3

\* visits as the traces T give it; every key of it is revealed.
VisitsOf(T) ==
  [k \in { keyCell(a.cell) : a \in T } |->
     << (CHOOSE a \in T : keyCell(a.cell) = k).t >>]

StepState ==
  [phase |-> phase, criminalPos |-> criminalPos, actionsLeft |-> actionsLeft,
   heliActed |-> heliActed, helicopters |-> helicopters, turn |-> turn,
   visits |-> visits, revealed |-> revealed, searched |-> searched]

\* The visit records of the revealed cells.
RevealedVisits == [k \in DOMAIN visits \cap revealed |-> visits[k]]

\* The evader's cell and the unrevealed visit records are replaced: the
\* evader stands on one of the first NumHiddenCells cells, and the
\* unrevealed records are as they are, or are that cell's alone, stamped
\* with the current turn.
NumHiddenCells == 2

HiddenAlternatives ==
  { [StepState EXCEPT !.criminalPos = cl, !.visits = vis] :
      << cl, vis >> \in
        UNION { { << h, visits >> } \cup
                { << h, RevealedVisits @@ (keyCell(h) :> << turn >>) >> } :
                  h \in { q \in Cells : CellIndex(q) < NumHiddenCells } } }

\* What a step of the pursuer AI has decided, read off the step.
StepDecision ==
  [unit |-> selectedHeli',
   kind |-> NewLine.kind,
   at |-> IF SearchStep THEN NewMark.target ELSE At(helicopters', selectedHeli'),
   line |-> NewLine]

\* Every step of the pursuer AI decides one of the choices computed from
\* the state it starts in.
AiStepDecidesAmongChoices ==
  [][(AiStepRuns /\ gameState' # gameState) =>
       StepDecision \in policeAiStepChoices(StepState)]_vars

\* C22: the choices of a step of the pursuer AI (the unit that acts, move
\* or search, the node moved to, the cell searched, the radio line) are
\* the same in every state that differs only in the evader's cell and in
\* the visit records of cells that are not revealed.
C22_AiNonInterference ==
  policeAiStepChoices(StepState) # {} =>
    \A alt \in HiddenAlternatives :
      policeAiStepChoices(alt) = policeAiStepChoices(StepState)

\* The pursuer AI is about to act while a trace is revealed and the evader
\* has visited cells that are not.
C22_Witness ==
  /\ policeAiStepChoices(StepState) # {}
  /\ revealed # {}
  /\ DOMAIN visits \ revealed # {}
  /\ aiTimers # << >>
  /\ Head(aiTimers).kind = "aiStep"

\* C23: in pass-and-play, while the match has not ended, the board draws
\* the evader (shouldShowCarNow) only during the evader's phases
\* CRIMINAL_HIDE and CRIMINAL_MOVE; it never draws it while phase is
\* POLICE_TURN, also not while the hand-over to the pursuer is pending.
C23_EvaderHiddenInPassPlay ==
  (mode = "PASS_PLAY" /\ phase # "END") =>
    \A cell \in Cells :
      shouldShowCarNow(cell) => phase \in {"CRIMINAL_HIDE", "CRIMINAL_MOVE"}

\* In pass-and-play a hand-over is pending.
HandoffPending == mode = "PASS_PLAY" /\ handoff.show

\* C24: in pass-and-play, while a hand-over is pending, the device is not
\* yet with the side it names, and no unit selection, move, search, choice
\* of the evader's start or evader move is accepted, whatever its input;
\* acceptHandoff is accepted and sets viewer to handoff.to, and no other
\* operation than it or reset ends the hand-over.
C24_HandoffGating ==
  HandoffPending =>
    /\ viewer # handoff.to
    /\ \A i \in 0..2 : ~ENABLED (selectHeli(i) /\ vars' # vars)
    /\ \A to \in Nodes : ~ENABLED MoveTakesEffect(to)
    /\ \A cl \in Cells :
         /\ ~ENABLED SearchTakesEffect(cl)
         /\ ~ENABLED (criminalChooseStart(cl) /\ vars' # vars)
         /\ ~ENABLED (criminalMoveTo(cl) /\ vars' # vars)
    /\ ENABLED (acceptHandoff /\ viewer' = handoff.to /\ ~handoff'.show)
    /\ ~ENABLED (acceptHandoff /\ viewer' # handoff.to)
    /\ ~ENABLED (OperationOtherThanReset /\ ~handoff'.show /\ viewer' # handoff.to)

\* After an evader move in pass-and-play the hand-over to the pursuer is
\* pending: unit 0 is selected with the full budget, and the device is
\* still with the evader.
C24_Witness ==
  /\ HandoffPending
  /\ handoff.to = "POLICE"
  /\ phase = "POLICE_TURN"
  /\ turn > 1
  /\ selectedHeli = 0
  /\ actionsLeft = ACTIONS_PER_TURN
  /\ viewer = "CRIMINAL"

\* The human pursuer has spent its budget.
BudgetSpent == phase = "POLICE_TURN" /\ actionsLeft = 0

\* The pursuer AI's three step timers have fired.
AiStepsDone ==
  /\ phase = "POLICE_AI_TURN"
  /\ \A i \in 1..Len(aiTimers) : aiTimers[i].kind # "aiStep"

\* C25: whenever the human pursuer's budget has reached 0, and whenever
\* the pursuer AI's three steps have run, the engine eventually leaves the
\* pursuer's phase; unless the match is abandoned it goes to the evader's
\* turn (CRIMINAL_AI_MOVING against the evader AI, CRIMINAL_MOVE
\* otherwise) if turn < MAX_TURN and to END otherwise.
C25_PursuerTurnHandOver ==
  /\ BudgetSpent ~> (phase # "POLICE_TURN")
  /\ AiStepsDone ~> (phase # "POLICE_AI_TURN")
  /\ [][(BudgetSpent /\ phase' \notin {"POLICE_TURN", "ROLE_SELECT"}) =>
          phase' = IF turn >= MAX_TURN THEN "END"
                   ELSE IF mode = "PASS_PLAY" THEN "CRIMINAL_MOVE"
                   ELSE "CRIMINAL_AI_MOVING"]_vars
  /\ [][(AiStepsDone /\ phase' \notin {"POLICE_AI_TURN", "ROLE_SELECT"}) =>
          phase' = IF turn >= MAX_TURN THEN "END" ELSE "CRIMINAL_MOVE"]_vars

\* After a turn in which the human pursuer spent its budget, the evader AI
\* is thinking about its move.
C25_Witness ==
  /\ phase = "CRIMINAL_AI_MOVING"
  /\ actionsLeft = 0
  /\ heliActed = << TRUE, TRUE, TRUE >>
  /\ turn > 1
  /\ criminalMoving

\* C26: in every reachable state every cell whose revealed flag is true
\* has a non-empty visit record.
C26_RevealedImpliesVisited ==
  \A k \in revealed : k \in DOMAIN visits /\ Len(visits[k]) > 0

\* Searches have revealed some of the cells the evader visited and found
\* nothing on others.
C26_Witness ==
  /\ revealed # {}
  /\ searched \ DOMAIN visits # {}
  /\ DOMAIN visits \ revealed # {}
  /\ Cardinality(revealed) >= 2

\* A revealed cell has a visit record.
HasEvidence(vis, rev) == \E k \in rev : k \in DOMAIN vis /\ Len(vis[k]) > 0

\* C27: for the turn, the visits and the revealed cells of every state,
\* and for the same evidence read on any later turn, buildHeat returns a
\* map over the 5x5 cells whose greatest value is exactly 1 (Scale) when
\* a revealed cell has a visit record, and whose every value is 1 when
\* none has.
C27_HeatNormalization ==
  \A t \in {turn, MAX_TURN} :
    LET heat == buildHeat(t, visits, revealed)
    IN  /\ DOMAIN heat = Cells
        /\ \A p \in Cells : heat[p] \in 0..Scale
        /\ \E p \in Cells : heat[p] = Scale
        /\ ~HasEvidence(visits, revealed) => \A p \in Cells : heat[p] = Scale

\* Three traces are revealed and the heat of some cell is below a tenth of
\* the greatest.
C27_Witness ==
  /\ Cardinality(revealed) >= 3
  /\ HasEvidence(visits, revealed)
  /\ \E p \in Cells : buildHeat(turn, visits, revealed)[p] * 10 < Scale

\* The candidates of the evader on pos from which a self-avoiding path of
\* movesLeft - 1 further moves exists, avoiding visited and the candidate.
SafeCandidates(pos, movesLeft, visited) ==
  { cl \in RawCandidates(pos, visited) :
      PathExists(cl, movesLeft - 1, visited \cup {<< cl.r, cl.c >>}) }

\* C28: for the evader's cell, visit history and turn (1..10) of every
\* state, when some candidate admits a self-avoiding continuation of
\* MAX_TURN - turn - 1 further moves, criminalAiNextMoveNoStuck answers
\* such a candidate; it answers a candidate without a continuation only
\* when no candidate has one.
C28_PlannerPicksSafeMove ==
  (criminalPos # NoCell /\ turn \in 1..(MAX_TURN - 1)) =>
    LET mv == criminalAiNextMoveNoStuck(criminalPos, visits, turn)
        safe == SafeCandidates(criminalPos, MAX_TURN - turn, DOMAIN visits)
    IN  /\ safe # {} => ~mv.stuck /\ mv.next \in safe
        /\ (~mv.stuck /\ mv.next \notin safe) =>
             safe = {} /\ mv.next \in RawCandidates(criminalPos, DOMAIN visits)

\* The planner is asked on a cell where some candidates are safe, others
\* are not, and the candidate ranked first among all of them is unsafe.
C28_Witness ==
  /\ phase = "CRIMINAL_AI_MOVING"
  /\ turn \in (PlannerFreeTurns + 1)..(MAX_TURN - 1)
  /\ LET safe == SafeCandidates(criminalPos, MAX_TURN - turn, DOMAIN visits)
     IN  /\ safe # {}
         /\ criminalAiNextMoveUnfiltered(criminalPos, visits, turn).next \notin safe
         /\ criminalAiNextMoveNoStuck(criminalPos, visits, turn).next \in safe

\* The planner is about to be asked for the AI evader's move.
EvaderAiTurn == mode = "SINGLE" /\ role = "POLICE" /\ phase = "CRIMINAL_AI_MOVING"

\* Some candidate of the evader is safe and the planner answers a safe one.
PlannerFindsSafeMove ==
  LET mv == criminalAiNextMoveNoStuck(criminalPos, visits, turn)
      safe == SafeCandidates(criminalPos, MAX_TURN - turn, DOMAIN visits)
  IN  /\ turn \in 1..(MAX_TURN - 1)
      /\ safe # {}
      /\ ~mv.stuck
      /\ mv.next \in safe

\* C29: in a single-player match whose evader follows the planner from
\* any of the 25 start cells, at every evader turn the turn is in 1..10,
\* some candidate is safe and the planner answers a safe candidate, so it
\* neither answers stuck nor falls back on an unsafe candidate, and the
\* evader's step moves it there and opens the next turn; every such match
\* reaches turn 11 and ends there with the evader winning.
C29_AiEvaderNeverTrapped ==
  /\ [][EvaderAiTurn =>
          /\ PlannerFindsSafeMove
          /\ criminalPos' = criminalAiNextMoveNoStuck(criminalPos, visits, turn).next
          /\ turn' = turn + 1
          /\ winner' = "NONE"]_vars
  /\ <>(turn = MAX_TURN /\ phase = "END" /\ winner = "CRIMINAL")

\* A match that began on a corner has ended on turn 11 after ten moves of
\* the planner.
C29_Witness ==
  /\ phase = "END"
  /\ winner = "CRIMINAL"
  /\ turn = MAX_TURN
  /\ Len(criminalPath) = MAX_TURN
  /\ criminalPath[1] = [r |-> 0, c |-> 0]

\* A match is under way: the evader's start is chosen and nobody has won.
MatchUnderWay ==
  phase \in {"POLICE_TURN", "POLICE_AI_TURN", "CRIMINAL_MOVE", "CRIMINAL_AI_MOVING"}

\* A step of the game by a player, over every node and cell alike, or by
\* the effect that ends the pursuer's turn.
GameStep ==
  \/ acceptHandoff
  \/ \E to \in Nodes : moveHeliPlayer(to)
  \/ \E target \in Cells : searchCellPlayer(target)
  \/ \E i \in 0..2 : selectHeli(i)
  \/ autoEndPoliceTurn
  \/ \E cl \in Cells : criminalMoveTo(cl)

\* C30: no state of a match under way is left without a game transition:
\* a timer is pending, or some step of a player or of the end-of-turn
\* effect changes the state.  (Without it no fairness brings the match to
\* phase END.)
C30_NoDeadEnd ==
  MatchUnderWay => (aiTimers # << >> \/ ENABLED << GameStep >>_vars)

\* C31: in every state where the evader is credited with the win, the
\* turn counter equals MAX_TURN: the evader never wins at an earlier turn.
C31_EvaderWinsAtTurnCap ==
  winner = "CRIMINAL" => turn = MAX_TURN

\* The end-of-turn timer of the AI pursuer has ended the match of a human
\* evader on the last turn.
C31_Witness ==
  /\ winner = "CRIMINAL"
  /\ phase = "END"
  /\ mode = "SINGLE"
  /\ role = "CRIMINAL"
  /\ Len(criminalPath) = MAX_TURN

\* C32: in phases POLICE_TURN and POLICE_AI_TURN, actionsLeft plus the
\* number of units whose acted flag is true equals ACTIONS_PER_TURN (3).
C32_OneActionPerUnit ==
  phase \in {"POLICE_TURN", "POLICE_AI_TURN"} =>
    actionsLeft + ActedCount = ACTIONS_PER_TURN

\* C33: in every state with an evader position, each revealed cell with a
\* visit record lies within turn - t moves of the evader's cell, t being
\* the cell's first visit; hence for no trace of buildHeat is the
\* evader's cell farther from the trace than the turns elapsed, the case
\* that buildHeat scores 0.02.
C33_EvidenceConsistentWithTruth ==
  criminalPos # NoCell =>
    /\ \A k \in revealed :
         (k \in DOMAIN visits /\ Len(visits[k]) > 0) =>
           \A t \in Range(visits[k]) :
             (\A u \in Range(visits[k]) : t <= u) =>
               Abs(criminalPos.r - k[1]) + Abs(criminalPos.c - k[2]) <= turn - t
    /\ \A tr \in Traces(visits, revealed) :
         ~(manhattanCell(criminalPos, tr.cell) > Max2(0, turn - tr.t))

\* Two cells the evader has left are revealed, and the evader is as far
\* from one of them as the turns elapsed allow.
C33_Witness ==
  /\ criminalPos # NoCell
  /\ winner = "NONE"
  /\ Cardinality(Traces(visits, revealed)) >= 2
  /\ \E tr \in Traces(visits, revealed) :
       /\ turn - tr.t >= 2
       /\ manhattanCell(criminalPos, tr.cell) = turn - tr.t

\* C34: once the evader's start cell is chosen, criminalPath has exactly
\* turn entries, its last entry is criminalPos, consecutive entries are
\* orthogonally adjacent, all entries are pairwise distinct, and the keys
\* of visits are exactly the cells of the path, the i-th cell stamped with
\* the single turn i.
C34_PathAndVisitBookkeeping ==
  criminalPos # NoCell =>
    /\ Len(criminalPath) = turn
    /\ criminalPath[Len(criminalPath)] = criminalPos
    /\ \A i \in 1..(Len(criminalPath) - 1) :
         Abs(criminalPath[i].r - criminalPath[i + 1].r)
           + Abs(criminalPath[i].c - criminalPath[i + 1].c) = 1
    /\ \A i, j \in 1..Len(criminalPath) : i # j => criminalPath[i] # criminalPath[j]
    /\ DOMAIN visits = { << criminalPath[i].r, criminalPath[i].c >> : i \in 1..Len(criminalPath) }
    /\ \A i \in 1..Len(criminalPath) :
         visits[<< criminalPath[i].r, criminalPath[i].c >>] = << i >>

\* In pass-and-play the evader has made four moves, the last one a turn
\* of its path.
C34_Witness ==
  /\ mode = "PASS_PLAY"
  /\ criminalPos # NoCell
  /\ Len(criminalPath) >= 5
  /\ criminalPath[Len(criminalPath)].r # criminalPath[Len(criminalPath) - 2].r
  /\ criminalPath[Len(criminalPath)].c # criminalPath[Len(criminalPath) - 2].c

\* The states the updater of an accepted request is applied to: the state
\* of the render, or that state after the updater of another request
\* accepted in the same render.
UpdaterInputs ==
  {PursuerFields} \cup
    { requestUpdater(PursuerFields, q1) : q1 \in { q \in PursuerRequests : requestAccepts(q) } }

\* C35: the updater of an accepted search of cell k that does not arrest,
\* applied to a state s, leaves k marked as searched, leaves k revealed if
\* and only if k has a visit record, changes no other cell's revealed
\* flag, and clears no searched flag of s.
C35_RevealEffect ==
  \A target \in SearchCells :
    (searchCellPlayerAccepts(target) /\ ~Arrests(target, criminalPos)) =>
      \A s \in UpdaterInputs :
        LET k == keyCell(target)
            s2 == searchCellUpdater(s, target)
        IN  /\ k \in s2.searched
            /\ k \in s2.revealed <=> (k \in DOMAIN visits /\ Len(visits[k]) > 0)
            /\ s2.revealed \ {k} = s.revealed \ {k}
            /\ s.searched \subseteq s2.searched

\* C36: while turn >= MAX_TURN no step of the pursuer AI moves a unit:
\* every step of its that changes the game on the final turn leaves the
\* units where they are and records a search.
C36_FinalTurnSearchesOnly ==
  [][(AiStepRuns /\ turn >= MAX_TURN /\ gameState' # gameState) =>
       (helicopters' = helicopters /\ SearchStep)]_vars

\* On the final turn the pursuer AI has spent its three actions on
\* searches without an arrest, every unit beside a free node.
C36_Witness ==
  /\ phase = "POLICE_AI_TURN"
  /\ turn = MAX_TURN
  /\ actionsLeft = 0
  /\ Len(lastPoliceSearches) = 3
  /\ \A i \in 1..3 : lastPoliceSearches[i].turn = MAX_TURN
  /\ \A i \in 0..2 :
       \E n \in Range(neighborsNode(At(helicopters, i))) :
         keyNode(n) \notin OccupiedBut(helicopters, i)

\* The number of unvisited cells beside cl.
Exits(cl, visited) == Cardinality(RawCandidates(cl, visited))

\* The distance of cl to the centre cell (2,2).
CentreDistance(cl) == Abs(cl.r - 2) + Abs(cl.c - 2)

\* The pool the planner picks from: the safe candidates, or all candidates
\* when none is safe.
Pool(pos, movesLeft, visited) ==
  IF SafeCandidates(pos, movesLeft, visited) # {}
  THEN SafeCandidates(pos, movesLeft, visited)
  ELSE RawCandidates(pos, visited)

\* C37: for the evader's cell, visit history and turn (1..10) of every
\* state with a candidate, criminalAiNextMoveNoStuck answers a cell of the
\* pool with the greatest number of unvisited neighbours, and among the
\* cells of the pool with that number one nearest to the centre.
C37_PlannerRanking ==
  (/\ criminalPos # NoCell
   /\ turn \in 1..(MAX_TURN - 1)
   /\ RawCandidates(criminalPos, DOMAIN visits) # {}) =>
    LET mv == criminalAiNextMoveNoStuck(criminalPos, visits, turn)
        pool == Pool(criminalPos, MAX_TURN - turn, DOMAIN visits)
    IN  /\ ~mv.stuck
        /\ mv.next \in pool
        /\ \A cl \in pool :
             /\ Exits(mv.next, DOMAIN visits) >= Exits(cl, DOMAIN visits)
             /\ Exits(mv.next, DOMAIN visits) = Exits(cl, DOMAIN visits) =>
                  CentreDistance(mv.next) <= CentreDistance(cl)

\* The planner is asked with a pool in which the cell nearest to the
\* centre has fewer unvisited neighbours than another, and the planner
\* takes the other.
C37_Witness ==
  /\ phase = "CRIMINAL_AI_MOVING"
  /\ turn \in 1..(MAX_TURN - 1)
  /\ LET pool == Pool(criminalPos, MAX_TURN - turn, DOMAIN visits)
         next == criminalAiNextMoveNoStuck(criminalPos, visits, turn).next
     IN  \E cl \in pool :
           /\ CentreDistance(cl) < CentreDistance(next)
           /\ Exits(cl, DOMAIN visits) < Exits(next, DOMAIN visits)

\* C38: for the heat map buildHeat produces in every state in which the
\* pursuer AI's step computes it, heatConfidence returns exactly 95, and
\* every line the AI has sent this turn carries that confidence: it is
\* never below the threshold of 55.
C38_ConfidenceConstant ==
  /\ (phase = "POLICE_AI_TURN" /\ criminalPos # NoCell) =>
       heatConfidence(buildHeat(turn, visits, revealed)) = 95
  /\ \A i \in 1..Len(policeAiRadio.lines) :
       policeAiRadio.lines[i].conf = 95 /\ policeAiRadio.lines[i].conf >= 55

\* The pursuer AI has sent a line on evidence of two traces that leaves
\* some cell with a heat under a third of the peak, where a confidence
\* read off that cell would be under 55.
C38_Witness ==
  /\ phase = "POLICE_AI_TURN"
  /\ criminalPos # NoCell
  /\ Cardinality(revealed) >= 2
  /\ policeAiRadio.turn = turn
  /\ policeAiRadio.lines # << >>
  /\ \E p \in Cells : buildHeat(turn, visits, revealed)[p] * 3 < Scale

\* C39: in the earlier single-player engine no two units share a node,
\* whether the human pursuer or the AI pursuer moves them.
C39_EarlierUnitsApart ==
  \A i, j \in 1..Len(helicopters) :
    i # j => keyNode(helicopters[i]) # keyNode(helicopters[j])

\* The visited sets canFinishFrom is asked about in a state: the evader's
\* own cell with the cells visited, and each candidate with the cells
\* visited and itself.
LookaheadInputs ==
  { [pos |-> criminalPos, set |-> DOMAIN visits] } \cup
    { [pos |-> cl, set |-> DOMAIN visits \cup {<< cl.r, cl.c >>}] :
        cl \in RawCandidates(criminalPos, DOMAIN visits) }

\* The step counts asked about in a state: the short ones, and the number of
\* moves the match has left, which is the one the planner asks about.
MaxLookahead == 4

LookaheadSteps ==
  0..MaxLookahead \cup (IF turn < MAX_TURN THEN {MAX_TURN - turn - 1} ELSE {})

\* C40: for the evader's cell and each of its candidates pos, with the
\* visited set V containing pos, and every step count n of LookaheadSteps,
\* canFinishFrom(pos, n, V) answers true exactly when a
\* sequence of n orthogonally adjacent moves inside the grid starts at
\* pos and visits no cell of V and no cell twice (whatever the order in
\* which the neighbours are tried), and a false answer leaves V as it was.
C40_LookaheadCorrect ==
  criminalPos # NoCell =>
    \A in \in LookaheadInputs :
      \A n \in LookaheadSteps :
        LET res == canFinishFrom(in.pos, n, in.set)
        IN  /\ res.ok <=> PathExists(in.pos, n, in.set)
            /\ ~res.ok => res.set = in.set

\* The planner is asked on a cell with a candidate that has a free
\* neighbour, so that the search descends from it, but no continuation of
\* the remaining length, and with another candidate that has one.
C40_Witness ==
  /\ phase = "CRIMINAL_AI_MOVING"
  /\ turn \in 1..(MAX_TURN - 2)
  /\ \E in \in LookaheadInputs :
       /\ in.pos # criminalPos
       /\ RawCandidates(in.pos, in.set) # {}
       /\ ~canFinishFrom(in.pos, MAX_TURN - turn - 1, in.set).ok
  /\ \E in \in LookaheadInputs :
       /\ in.pos # criminalPos
       /\ canFinishFrom(in.pos, MAX_TURN - turn - 1, in.set).ok

=============================================================================
